---- MODULE Spec2Model ----
(***************************************************************************)
(* Trait normalization and filter-index derivation pipeline of the         *)
(* native_plants repository: the latest-value resolvers, the normalizers,  *)
(* the derived attributes and the three batch drivers                      *)
(* (scripts/build_traits_normalized.py, scripts/01test.py,                 *)
(* scripts/build_filter_index.py) over a transactional store.              *)
(*                                                                         *)
(* Text values are sequences of one-character strings, so that the         *)
(* normalizers are computed character by character as the code does.       *)
(* The SQL NULL / Python None is the one-element sequence NULL.            *)
(***************************************************************************)
EXTENDS Integers, Sequences, FiniteSets, TLC

VARIABLES
    text,            \* the raw text handed to the normalizers
    out,             \* the normalizers' results for text
    obs,             \* plant_characteristics_kv: the set of observations
    db,              \* the destination tables as the open transaction sees them
    committed,       \* the destination tables as last committed
    pc,              \* where the driver stands: idle, fetch, write, children, end, done, failed, crashed
    driver,          \* the script that runs
    args,            \* its command line
    symbols,         \* the symbols in scope, in order
    i,               \* enumerate(symbols, start=1): the index of the symbol in progress
    j,               \* the next position of the trait map
    kv,              \* the resolver's result for the symbol in progress
    upserts,         \* the upsert counter of the summary line
    runs,            \* the number of runs started; the clock of now / last_indexed_at
    exit_code,       \* <<>> while running, else <<status>>
    summary,         \* whether the success summary was printed
    prev,            \* what the previous run left, when it succeeded
    seen             \* the observation store as the latest run found it

----------------------------------------------------------------------------
(* Text primitives (Python str methods used by the normalizers)            *)

NULL == <<"NULL">>

LowerCase == <<"a", "b", "c", "d", "e", "f", "g", "h", "i", "j", "k", "l", "m", "n", "o", "p", "q", "r", "s", "t", "u", "v", "w", "x", "y", "z">>
UpperCase == <<"A", "B", "C", "D", "E", "F", "G", "H", "I", "J", "K", "L", "M", "N", "O", "P", "Q", "R", "S", "T", "U", "V", "W", "X", "Y", "Z">>

IsUpper(c) == \E k \in 1..Len(UpperCase) : UpperCase[k] = c
IsLower(c) == \E k \in 1..Len(LowerCase) : LowerCase[k] = c
IsLetter(c) == IsUpper(c) \/ IsLower(c)
LowerChar(c) == IF IsUpper(c) THEN LowerCase[CHOOSE k \in 1..Len(UpperCase) : UpperCase[k] = c] ELSE c
UpperChar(c) == IF IsLower(c) THEN UpperCase[CHOOSE k \in 1..Len(LowerCase) : LowerCase[k] = c] ELSE c

\* str.lower()
lower(s) == [k \in 1..Len(s) |-> LowerChar(s[k])]

\* str.title(): a letter that follows a non-letter is upper-cased, any other letter lower-cased
title(s) ==
    [k \in 1..Len(s) |->
        IF ~IsLetter(s[k]) THEN s[k]
        ELSE IF k = 1 \/ ~IsLetter(s[k-1]) THEN UpperChar(s[k]) ELSE LowerChar(s[k])]

IsSpace(c) == c = " "

\* `not value`: None and the empty string are falsy
Falsy(value) == value = NULL \/ value = <<>>

RECURSIVE lstrip(_)
lstrip(s) == IF s # <<>> /\ IsSpace(Head(s)) THEN lstrip(Tail(s)) ELSE s

RECURSIVE rstrip(_)
rstrip(s) == IF s # <<>> /\ IsSpace(s[Len(s)]) THEN rstrip(SubSeq(s, 1, Len(s) - 1)) ELSE s

\* str.strip()
strip(s) == rstrip(lstrip(s))

\* the longest prefix of s that holds no character of seps
RECURSIVE TakeWord(_, _)
TakeWord(s, seps) == IF s = <<>> \/ Head(s) \in seps THEN <<>> ELSE <<Head(s)>> \o TakeWord(Tail(s), seps)

\* str.split(): the maximal runs of non-whitespace characters
RECURSIVE split(_)
split(s) ==
    LET t == lstrip(s) IN
    IF t = <<>> THEN <<>>
    ELSE LET w == TakeWord(t, {" "}) IN <<w>> \o split(SubSeq(t, Len(w) + 1, Len(t)))

\* str.split(d): the pieces between occurrences of the one-character delimiter d (empty pieces kept)
RECURSIVE split_on(_, _)
split_on(s, d) ==
    LET w == TakeWord(s, {d}) IN
    IF Len(w) = Len(s) THEN <<w>>
    ELSE <<w>> \o split_on(SubSeq(s, Len(w) + 2, Len(s)), d)

\* " ".join(words)
RECURSIVE join(_)
join(words) ==
    IF words = <<>> THEN <<>>
    ELSE IF Len(words) = 1 THEN words[1]
    ELSE words[1] \o <<" ">> \o join(Tail(words))

\* " ".join(value.split()).strip(): whitespace collapsed and trimmed
collapse(value) == strip(join(split(value)))

\* str.startswith(p)
startswith(v, p) == Len(v) >= Len(p) /\ SubSeq(v, 1, Len(p)) = p

\* `p in txt`
contains(txt, p) == \E k \in 1..(Len(txt) - Len(p) + 1) : SubSeq(txt, k, k + Len(p) - 1) = p

Yes == <<"Y", "e", "s">>
No == <<"N", "o">>
Unknown == <<"U", "n", "k", "n", "o", "w", "n">>

----------------------------------------------------------------------------
(* Normalizers of scripts/build_traits_normalized.py                        *)

normalize_yes_no(value) ==
    IF Falsy(value) THEN Unknown
    ELSE LET v == collapse(value) IN
         IF startswith(v, <<"y", "e", "s">>) THEN Yes
         ELSE IF startswith(v, <<"n", "o">>) THEN No
         ELSE NULL

allowed ==
    { <<"E", "a", "r", "l", "y", " ", "S", "p", "r", "i", "n", "g">>,
      <<"S", "p", "r", "i", "n", "g">>,
      <<"M", "i", "d", " ", "S", "p", "r", "i", "n", "g">>,
      <<"L", "a", "t", "e", " ", "S", "p", "r", "i", "n", "g">>,
      <<"E", "a", "r", "l", "y", " ", "S", "u", "m", "m", "e", "r">>,
      <<"S", "u", "m", "m", "e", "r">>,
      <<"M", "i", "d", " ", "S", "u", "m", "m", "e", "r">>,
      <<"L", "a", "t", "e", " ", "S", "u", "m", "m", "e", "r">>,
      <<"E", "a", "r", "l", "y", " ", "F", "a", "l", "l">>,
      <<"F", "a", "l", "l">>,
      <<"M", "i", "d", " ", "F", "a", "l", "l">>,
      <<"L", "a", "t", "e", " ", "F", "a", "l", "l">>,
      <<"E", "a", "r", "l", "y", " ", "W", "i", "n", "t", "e", "r">>,
      <<"W", "i", "n", "t", "e", "r">>,
      <<"M", "i", "d", " ", "W", "i", "n", "t", "e", "r">>,
      <<"L", "a", "t", "e", " ", "W", "i", "n", "t", "e", "r">>,
      <<"N", "o", "n", "e">>,
      <<"S", "l", "i", "g", "h", "t">>,
      <<"M", "o", "d", "e", "r", "a", "t", "e">>,
      <<"H", "i", "g", "h">>,
      <<"S", "l", "o", "w">>,
      <<"M", "o", "d", "e", "r", "a", "t", "e">>,
      <<"R", "a", "p", "i", "d">>,
      <<"L", "o", "w">>,
      <<"M", "e", "d", "i", "u", "m">>,
      <<"S", "h", "o", "r", "t">>,
      <<"L", "o", "n", "g">>,
      <<"B", "l", "u", "e">>,
      <<"B", "r", "o", "w", "n">>,
      <<"G", "r", "e", "e", "n">>,
      <<"O", "r", "a", "n", "g", "e">>,
      <<"P", "u", "r", "p", "l", "e">>,
      <<"R", "e", "d">>,
      <<"W", "h", "i", "t", "e">>,
      <<"Y", "e", "l", "l", "o", "w">> }

\* the comparison with the allowed labels as the text is written
normalize_enum_without_title(value) ==
    IF Falsy(value) THEN Unknown
    ELSE LET v == collapse(value) IN
         IF v \in allowed THEN v ELSE Unknown

normalize_enum(value) ==
    IF Falsy(value) THEN Unknown
    ELSE LET v == title(collapse(value)) IN
         IF v \in allowed THEN v ELSE Unknown

\* re.search(r"(-?d+)", v): the pattern is an optional "-" followed by one or more letters "d"
RECURSIVE d_run(_)
d_run(s) == IF s # <<>> /\ Head(s) = "d" THEN <<"d">> \o d_run(Tail(s)) ELSE <<>>

RECURSIVE re_search_number(_)
re_search_number(v) ==
    IF v = <<>> THEN NULL
    ELSE IF Head(v) = "-" /\ Len(v) >= 2 /\ v[2] = "d" THEN <<"-">> \o d_run(Tail(v))
    ELSE IF Head(v) = "d" THEN d_run(v)
    ELSE re_search_number(Tail(v))

normalize_number(value) ==
    IF Falsy(value) THEN NULL
    ELSE re_search_number(collapse(value))

----------------------------------------------------------------------------
(* Normalizers of scripts/01test.py                                         *)

normalize_yes_no_01(value) ==
    IF Falsy(value) THEN NULL
    ELSE LET v == lower(collapse(value)) IN
         IF startswith(v, <<"y", "e", "s">>) THEN Yes
         ELSE IF startswith(v, <<"n", "o">>) THEN No
         ELSE NULL

normalize_low_med_high(value) ==
    IF Falsy(value) THEN NULL
    ELSE LET v == lower(collapse(value)) IN
         IF startswith(v, <<"l", "o", "w">>) THEN <<"L", "o", "w">>
         ELSE IF startswith(v, <<"m", "e", "d", "i", "u", "m">>) THEN <<"M", "e", "d", "i", "u", "m">>
         ELSE IF startswith(v, <<"h", "i", "g", "h">>) THEN <<"H", "i", "g", "h">>
         ELSE NULL

\* `return v` in place of `return v or None`
normalize_text_keeping_empty(value) ==
    IF Falsy(value) THEN NULL
    ELSE collapse(value)

normalize_text(value) ==
    IF Falsy(value) THEN NULL
    ELSE LET v == collapse(value) IN IF v = <<>> THEN NULL ELSE v

----------------------------------------------------------------------------
(* Normalizers and derived attributes of scripts/build_filter_index.py      *)

normalize_enum_fi(value, allowed_set) ==
    IF Falsy(value) THEN Unknown
    ELSE LET v == collapse(value) IN
         IF v \in allowed_set THEN v ELSE Unknown

normalize_moisture_use(value) ==
    normalize_enum_fi(value, { <<"L", "o", "w">>, <<"M", "e", "d", "i", "u", "m">>, <<"H", "i", "g", "h">> })

bloom_periods ==
    { <<"E", "a", "r", "l", "y", " ", "S", "p", "r", "i", "n", "g">>,
      <<"S", "p", "r", "i", "n", "g">>,
      <<"M", "i", "d", " ", "S", "p", "r", "i", "n", "g">>,
      <<"L", "a", "t", "e", " ", "S", "p", "r", "i", "n", "g">>,
      <<"E", "a", "r", "l", "y", " ", "S", "u", "m", "m", "e", "r">>,
      <<"S", "u", "m", "m", "e", "r">>,
      <<"M", "i", "d", " ", "S", "u", "m", "m", "e", "r">>,
      <<"L", "a", "t", "e", " ", "S", "u", "m", "m", "e", "r">>,
      <<"E", "a", "r", "l", "y", " ", "F", "a", "l", "l">>,
      <<"F", "a", "l", "l">>,
      <<"M", "i", "d", " ", "F", "a", "l", "l">>,
      <<"L", "a", "t", "e", " ", "F", "a", "l", "l">>,
      <<"E", "a", "r", "l", "y", " ", "W", "i", "n", "t", "e", "r">>,
      <<"W", "i", "n", "t", "e", "r">>,
      <<"M", "i", "d", " ", "W", "i", "n", "t", "e", "r">>,
      <<"L", "a", "t", "e", " ", "W", "i", "n", "t", "e", "r">> }

normalize_bloom_period(value) == normalize_enum_fi(value, bloom_periods)

normalize_shade_tolerance(value) ==
    normalize_enum_fi(value, { <<"T", "o", "l", "e", "r", "a", "n", "t">>, <<"I", "n", "t", "e", "r", "m", "e", "d", "i", "a", "t", "e">>, <<"I", "n", "t", "o", "l", "e", "r", "a", "n", "t">> })

Perennial == <<"P", "e", "r", "e", "n", "n", "i", "a", "l">>
Biennial == <<"B", "i", "e", "n", "n", "i", "a", "l">>
Annual == <<"A", "n", "n", "u", "a", "l">>

\* the three tests in the order Annual, Biennial, Perennial
normalize_duration_primary_annual_first(duration_raw) ==
    IF Falsy(duration_raw) THEN Unknown
    ELSE LET txt == lower(duration_raw) IN
         IF contains(txt, lower(Annual)) THEN Annual
         ELSE IF contains(txt, lower(Biennial)) THEN Biennial
         ELSE IF contains(txt, lower(Perennial)) THEN Perennial
         ELSE Unknown

normalize_duration_primary(duration_raw) ==
    IF Falsy(duration_raw) THEN Unknown
    ELSE LET txt == lower(duration_raw) IN
         IF contains(txt, lower(Perennial)) THEN Perennial
         ELSE IF contains(txt, lower(Biennial)) THEN Biennial
         ELSE IF contains(txt, lower(Annual)) THEN Annual
         ELSE Unknown

split_duration_set(duration_raw) ==
    IF Falsy(duration_raw) THEN {}
    ELSE LET txt == lower(duration_raw) IN
         { d \in {Perennial, Biennial, Annual} : contains(txt, lower(d)) }

is_shade_tolerant(shade_enum) ==
    IF shade_enum \in { <<"T", "o", "l", "e", "r", "a", "n", "t">>, <<"I", "n", "t", "e", "r", "m", "e", "d", "i", "a", "t", "e">> } THEN 1 ELSE 0

normalize_unknown(value) ==
    IF Falsy(value) THEN Unknown
    ELSE LET v == lower(collapse(value)) IN
         IF startswith(v, <<"y", "e", "s">>) \/ v \in { <<"y">>, <<"t", "r", "u", "e">>, <<"t">>, <<"1">> } THEN Yes
         ELSE IF startswith(v, <<"n", "o">>) \/ v \in { <<"n">>, <<"f", "a", "l", "s", "e">>, <<"f">>, <<"0">> } THEN No
         ELSE Unknown

\* the exception an operation raises instead of returning a value
IndexError == <<"IndexError">>

\* family.removeprefix("x") is evaluated and its result discarded; family.split()[0]
\* raises IndexError when family holds only whitespace
normalize_seasonal_interest(family) ==
    IF Falsy(family) THEN Unknown
    ELSE IF split(family) = <<>> THEN IndexError
    ELSE LET v == lower(strip(split(family)[1])) IN
         IF v \in { <<"a", "r", "e", "c", "a", "c", "e", "a", "e">>, <<"t", "a", "x", "a", "c", "e", "a", "e">>, <<"a", "r", "a", "u", "c", "a", "r", "i", "a", "c", "e", "a", "e">>, <<"p", "o", "d", "o", "c", "a", "r", "p", "a", "c", "e", "a", "e">> }
         THEN Yes ELSE Unknown

\* the flag as a binary one
showy_bloomer_binary(v) == IF v = Yes THEN 1 ELSE 0

\* None is returned when v is none of the three
showy_bloomer(v) == IF v = Yes THEN 1 ELSE IF v = No THEN 0 ELSE IF v = Unknown THEN 2 ELSE NULL
fall_interest(v) == IF v = Yes THEN 1 ELSE IF v = No THEN 0 ELSE IF v = Unknown THEN 2 ELSE NULL
evergreen(v) == IF v = Yes THEN 1 ELSE IF v = No THEN 0 ELSE IF v = Unknown THEN 2 ELSE NULL

RECURSIVE SeqToSet(_)
SeqToSet(s) == IF s = <<>> THEN {} ELSE {Head(s)} \cup SeqToSet(Tail(s))

\* the split on "," alone
growth_habit_tokens_commas_only(growth_habits_raw) ==
    IF Falsy(growth_habits_raw) THEN {}
    ELSE { strip(p) : p \in SeqToSet(split_on(growth_habits_raw, ",")) } \ { <<>> }

\* refresh_child_tables: split on ",", then each part on ";", trimmed, empty tokens dropped
growth_habit_tokens(growth_habits_raw) ==
    IF Falsy(growth_habits_raw) THEN {}
    ELSE LET parts == { strip(p) : p \in SeqToSet(split_on(growth_habits_raw, ",")) } \ { <<>> }
             expanded == UNION { { strip(q) : q \in SeqToSet(split_on(p, ";")) } : p \in parts }
         IN expanded \ { <<>> }

----------------------------------------------------------------------------
(* The observation store plant_characteristics_kv and the two resolvers     *)

DIRECT == "Direct Trait Lookup"

\* MySQL TRIM(): leading and trailing spaces removed, NULL stays NULL
TRIM(v) == IF v = NULL THEN NULL ELSE strip(v)

\* the test without TRIM and NULLIF: `trait_value IS NULL`
value_is_null_untrimmed(v) == v = NULL

\* NULLIF(TRIM(trait_value), '') IS NULL
value_is_null(v) == TRIM(v) = NULL \/ TRIM(v) = <<>>

BoolInt(b) == IF b THEN 1 ELSE 0

\* the ordering without its first term
kv_order_without_section(a, b) ==
    LET ea == BoolInt(value_is_null(a.trait_value))
        eb == BoolInt(value_is_null(b.trait_value))
    IN  \/ ea < eb
        \/ ea = eb /\ a.fetched_at > b.fetched_at

\* the ordering without its last term
kv_order_without_recency(a, b) ==
    LET da == BoolInt(a.section = DIRECT)
        db_ == BoolInt(b.section = DIRECT)
        ea == BoolInt(value_is_null(a.trait_value))
        eb == BoolInt(value_is_null(b.trait_value))
    IN  \/ da > db_
        \/ da = db_ /\ ea < eb

\* fetch_latest_kv: ORDER BY (section = 'Direct Trait Lookup') DESC,
\*                           (NULLIF(TRIM(trait_value), '') IS NULL) ASC, fetched_at DESC
kv_order(a, b) ==
    LET da == BoolInt(a.section = DIRECT)
        db_ == BoolInt(b.section = DIRECT)
        ea == BoolInt(value_is_null(a.trait_value))
        eb == BoolInt(value_is_null(b.trait_value))
    IN  \/ da > db_
        \/ da = db_ /\ ea < eb
        \/ da = db_ /\ ea = eb /\ a.fetched_at > b.fetched_at

\* fetch_latest_kv_map: ORDER BY (NULLIF(TRIM(trait_value), '') IS NULL) ASC, fetched_at DESC
kv_map_order(a, b) ==
    LET ea == BoolInt(value_is_null(a.trait_value))
        eb == BoolInt(value_is_null(b.trait_value))
    IN  \/ ea < eb
        \/ ea = eb /\ a.fetched_at > b.fetched_at

\* the rows ROW_NUMBER() may number 1 in a partition: those no other row is ordered before.
\* Rows that tie under the ORDER BY are numbered in an order the server chooses.
rn_1(rows, by_section) ==
    { r \in rows : \A p \in rows : ~(IF by_section THEN kv_order(p, r) ELSE kv_map_order(p, r)) }

\* the results fetch_latest_kv can return: trait_name -> {value, section, fetched_at}
fetch_latest_kv(store, symbol, trait_names) ==
    LET rows == { o \in store : o.symbol = symbol /\ o.trait_name \in trait_names }
        names == { o.trait_name : o \in rows }
        top(n) == rn_1({ o \in rows : o.trait_name = n }, TRUE)
    IN  { [n \in names |-> [value |-> f[n].trait_value, section |-> f[n].section,
                            fetched_at |-> f[n].fetched_at]] :
            f \in { g \in [names -> rows] : \A n \in names : g[n] \in top(n) } }

KV_MAP_NAMES ==
    { "Group", "Duration", "Growth Habits", "Native Status",
      "Fall Conspicuous", "Leaf Retention", "Flower Conspicuous",
      "Shade Tolerance", "Moisture Use", "Bloom Period", "Family" }

\* the results fetch_latest_kv_map can return: trait_name -> trait_value
fetch_latest_kv_map(store, symbol) ==
    LET rows == { o \in store : o.symbol = symbol /\ o.trait_name \in KV_MAP_NAMES }
        names == { o.trait_name : o \in rows }
        top(n) == rn_1({ o \in rows : o.trait_name = n }, FALSE)
    IN  { [n \in names |-> f[n].trait_value] :
            f \in { g \in [names -> rows] : \A n \in names : g[n] \in top(n) } }

\* dict.get(key): None when the key is absent
Get(d, key) == IF key \in DOMAIN d THEN d[key] ELSE NULL

PROFILE_KV_SECTIONS == { "Profile / General Information", "Characteristics" }
CHARACTERISTICS_KV_SECTIONS ==
    { "Morphology/Physiology", "Growth Requirements", "Reproduction", "Suitability/Use" }

has_any_profile_kv(store, symbol) ==
    BoolInt(\E o \in store : o.symbol = symbol /\ o.section \in PROFILE_KV_SECTIONS)

\* the test asking for a value as well
has_any_characteristics_kv_with_value(store, symbol) ==
    BoolInt(\E o \in store : /\ o.symbol = symbol
                             /\ o.section \in CHARACTERISTICS_KV_SECTIONS
                             /\ ~value_is_null(o.trait_value))

has_any_characteristics_kv(store, symbol) ==
    BoolInt(\E o \in store : o.symbol = symbol /\ o.section \in CHARACTERISTICS_KV_SECTIONS)

----------------------------------------------------------------------------
(* The trait mappings of the two trait drivers, in dictionary order         *)

TRAIT_MAP ==
    << [raw_name |-> "Flower Color", trait_key |-> "bloom_color", normalizer |-> "normalize_enum", value_type |-> "enum"],
       [raw_name |-> "Hedge Tolerance", trait_key |-> "hedge_tolerance", normalizer |-> "normalize_enum", value_type |-> "enum"],
       [raw_name |-> "Height, Mature (feet)", trait_key |-> "height_mature", normalizer |-> "normalize_number", value_type |-> "number"],
       [raw_name |-> "Height at 20 Years, Maximum (feet)", trait_key |-> "height_20yr", normalizer |-> "normalize_number", value_type |-> "number"],
       [raw_name |-> "Vegetative Spread Rate", trait_key |-> "colonizing", normalizer |-> "normalize_enum", value_type |-> "enum"],
       [raw_name |-> "Seed Spread Rate", trait_key |-> "reseeding", normalizer |-> "normalize_enum", value_type |-> "enum"],
       [raw_name |-> "Propagated by Corm", trait_key |-> "corms", normalizer |-> "normalize_enum", value_type |-> "bool"],
       [raw_name |-> "Propagated by Sprigs", trait_key |-> "sprigs", normalizer |-> "normalize_enum", value_type |-> "bool"],
       [raw_name |-> "Propagated by Tubers", trait_key |-> "tubers", normalizer |-> "normalize_enum", value_type |-> "bool"],
       [raw_name |-> "Palatable Human", trait_key |-> "palatable_human", normalizer |-> "normalize_yes_no", value_type |-> "bool"],
       [raw_name |-> "Palatable Browse Animal", trait_key |-> "palatable_browse_animal", normalizer |-> "normalize_enum", value_type |-> "enum"],
       [raw_name |-> "Palatable Graze Animal", trait_key |-> "palatable_graze_animal", normalizer |-> "normalize_enum", value_type |-> "enum"],
       [raw_name |-> "Fruit/Seed Period Begin", trait_key |-> "fruit_ready", normalizer |-> "normalize_enum", value_type |-> "enum"],
       [raw_name |-> "Toxicity", trait_key |-> "toxicity", normalizer |-> "normalize_enum", value_type |-> "bool"],
       [raw_name |-> "Adapted to Coarse Textured Soils", trait_key |-> "soil_sand", normalizer |-> "normalize_yes_no", value_type |-> "bool"],
       [raw_name |-> "Adapted to Medium Textured Soils", trait_key |-> "soil_loam", normalizer |-> "normalize_yes_no", value_type |-> "bool"],
       [raw_name |-> "Adapted to Fine Textured Soils", trait_key |-> "soil_clay", normalizer |-> "normalize_yes_no", value_type |-> "bool"],
       [raw_name |-> "Salinity Tolerance", trait_key |-> "salinity", normalizer |-> "normalize_enum", value_type |-> "enum"],
       [raw_name |-> "Temperature, Minimum (deg F)", trait_key |-> "min_temp", normalizer |-> "normalize_number", value_type |-> "number"],
       [raw_name |-> "Frost Free Days, Minimum", trait_key |-> "min_frost", normalizer |-> "normalize_number", value_type |-> "number"],
       [raw_name |-> "Cold Stratification Required", trait_key |-> "cold_req", normalizer |-> "normalize_yes_no", value_type |-> "bool"] >>

TRAIT_MAP_01 ==
    << [raw_name |-> "Flower Conspicuous", trait_key |-> "flower_conspicuous", normalizer |-> "normalize_yes_no_01", value_type |-> "bool"],
       [raw_name |-> "Fall Conspicuous", trait_key |-> "fall_conspicuous", normalizer |-> "normalize_yes_no_01", value_type |-> "bool"],
       [raw_name |-> "Palatable Human", trait_key |-> "palatable_human", normalizer |-> "normalize_yes_no_01", value_type |-> "bool"],
       [raw_name |-> "Palatable Browse Animal", trait_key |-> "palatable_browse_animal", normalizer |-> "normalize_yes_no_01", value_type |-> "bool"],
       [raw_name |-> "Drought Tolerance", trait_key |-> "drought_tolerance", normalizer |-> "normalize_low_med_high", value_type |-> "enum"],
       [raw_name |-> "Anaerobic Tolerance", trait_key |-> "anaerobic_tolerance", normalizer |-> "normalize_low_med_high", value_type |-> "enum"],
       [raw_name |-> "Fire Tolerance", trait_key |-> "fire_tolerance", normalizer |-> "normalize_low_med_high", value_type |-> "enum"],
       [raw_name |-> "Hedge Tolerance", trait_key |-> "hedge_tolerance", normalizer |-> "normalize_low_med_high", value_type |-> "enum"],
       [raw_name |-> "Adapted to Coarse Textured Soils", trait_key |-> "soil_coarse_ok", normalizer |-> "normalize_yes_no_01", value_type |-> "bool"],
       [raw_name |-> "Adapted to Medium Textured Soils", trait_key |-> "soil_medium_ok", normalizer |-> "normalize_yes_no_01", value_type |-> "bool"],
       [raw_name |-> "Adapted to Fine Textured Soils", trait_key |-> "soil_fine_ok", normalizer |-> "normalize_yes_no_01", value_type |-> "bool"],
       [raw_name |-> "Toxicity", trait_key |-> "toxicity", normalizer |-> "normalize_yes_no_01", value_type |-> "bool"],
       [raw_name |-> "Toxic", trait_key |-> "toxicity", normalizer |-> "normalize_yes_no_01", value_type |-> "bool"] >>

Apply(normalizer, value) ==
    CASE normalizer = "normalize_enum" -> normalize_enum(value)
      [] normalizer = "normalize_number" -> normalize_number(value)
      [] normalizer = "normalize_yes_no" -> normalize_yes_no(value)
      [] normalizer = "normalize_yes_no_01" -> normalize_yes_no_01(value)
      [] normalizer = "normalize_low_med_high" -> normalize_low_med_high(value)

SOURCE_SYSTEM == "USDA_SELENIUM_BS4"

----------------------------------------------------------------------------
(* Reference tables read by the drivers                                     *)

\* the symbols of the model, in ascending (ORDER BY symbol) order
AllSymbols == << "ABCD", "EFGH" >>

plant_state_presence ==
    { [fetch_id |-> 1, state_code |-> "VA", symbol |-> "ABCD"],
      [fetch_id |-> 1, state_code |-> "VA", symbol |-> "EFGH"],
      [fetch_id |-> 2, state_code |-> "VA", symbol |-> "EFGH"] }

canonical_plants ==
    { [symbol |-> "ABCD", scientific_name_with_author |-> <<"T", "a", "x", "u", "s", " ", "L", ".">>,
       family |-> <<"T", "a", "x", "a", "c", "e", "a", "e">>, preferred_common_name |-> <<"y", "e", "w">>] }

\* list slicing xs[:n]
Take(xs, n) == SubSeq(xs, 1, IF n < Len(xs) THEN n ELSE Len(xs))

RECURSIVE Filter(_, _)
Filter(xs, keep) ==
    IF xs = <<>> THEN <<>>
    ELSE (IF Head(xs) \in keep THEN <<Head(xs)>> ELSE <<>>) \o Filter(Tail(xs), keep)

\* SELECT DISTINCT symbol ... WHERE state_code = %s [AND fetch_id = %s] ORDER BY symbol;
\* fetch_id is <<>> for None and <<n>> for the integer n
get_symbols_for_state(state_code, fetch_id) ==
    Filter(AllSymbols,
           { r.symbol : r \in { p \in plant_state_presence :
                                  /\ p.state_code = state_code
                                  /\ (fetch_id = <<>> \/ p.fetch_id = fetch_id[1]) } })

\* the row of canonical_plants, or the empty dict
get_canonical_fields(symbol) ==
    IF \E c \in canonical_plants : c.symbol = symbol
    THEN CHOOSE c \in canonical_plants : c.symbol = symbol
    ELSE [k \in {} |-> NULL]

----------------------------------------------------------------------------
(* The destination tables and their writers                                 *)

\* INSERT IGNORE: the row a key already has is kept
upsert_trait_ignoring(table, symbol, trait_key, trait_value, value_type, source_system, trait_name_raw, trait_value_raw, now) ==
    IF \E r \in table : r.symbol = symbol /\ r.trait_key = trait_key
    THEN table
    ELSE table \cup { [symbol |-> symbol, trait_key |-> trait_key, trait_value |-> trait_value,
                       value_type |-> value_type, source_system |-> source_system,
                       trait_name_raw |-> trait_name_raw, trait_value_raw |-> trait_value_raw,
                       last_computed_at |-> now] }

\* REPLACE of all the rows of the symbol by the row written
upsert_trait_replacing_symbol(table, symbol, trait_key, trait_value, value_type, source_system, trait_name_raw, trait_value_raw, now) ==
    { r \in table : r.symbol # symbol }
    \cup { [symbol |-> symbol, trait_key |-> trait_key, trait_value |-> trait_value,
            value_type |-> value_type, source_system |-> source_system,
            trait_name_raw |-> trait_name_raw, trait_value_raw |-> trait_value_raw,
            last_computed_at |-> now] }

\* ON DUPLICATE KEY UPDATE without trait_name_raw and trait_value_raw
upsert_trait_keeping_raw(table, symbol, trait_key, trait_value, value_type, source_system, trait_name_raw, trait_value_raw, now) ==
    { r \in table : ~(r.symbol = symbol /\ r.trait_key = trait_key) }
    \cup { [symbol |-> symbol, trait_key |-> trait_key, trait_value |-> trait_value,
            value_type |-> value_type, source_system |-> source_system,
            trait_name_raw |-> old.trait_name_raw, trait_value_raw |-> old.trait_value_raw,
            last_computed_at |-> now] :
                old \in { r \in table : r.symbol = symbol /\ r.trait_key = trait_key } }
    \cup IF \E r \in table : r.symbol = symbol /\ r.trait_key = trait_key
         THEN {}
         ELSE { [symbol |-> symbol, trait_key |-> trait_key, trait_value |-> trait_value,
                 value_type |-> value_type, source_system |-> source_system,
                 trait_name_raw |-> trait_name_raw, trait_value_raw |-> trait_value_raw,
                 last_computed_at |-> now] }

\* INSERT ... ON DUPLICATE KEY UPDATE on the key (symbol, trait_key)
upsert_trait(table, symbol, trait_key, trait_value, value_type, source_system, trait_name_raw, trait_value_raw, now) ==
    { r \in table : ~(r.symbol = symbol /\ r.trait_key = trait_key) }
    \cup { [symbol |-> symbol, trait_key |-> trait_key, trait_value |-> trait_value,
            value_type |-> value_type, source_system |-> source_system,
            trait_name_raw |-> trait_name_raw, trait_value_raw |-> trait_value_raw,
            last_computed_at |-> now] }

\* the plant_filter_index row the driver computes for a symbol from canonical and kv
filter_index_row(store, symbol, canonical, kvm, last_indexed_at) ==
    LET duration_raw == Get(kvm, "Duration")
        shade_tolerance == normalize_shade_tolerance(Get(kvm, "Shade Tolerance"))
        flower_conspicuous == normalize_unknown(Get(kvm, "Flower Conspicuous"))
        fall_conspicuous == normalize_unknown(Get(kvm, "Fall Conspicuous"))
        leaf_retention == normalize_unknown(Get(kvm, "Leaf Retention"))
    IN  [symbol |-> symbol,
         preferred_common_name |-> Get(canonical, "preferred_common_name"),
         scientific_name_with_author |-> Get(canonical, "scientific_name_with_author"),
         family |-> Get(canonical, "family"),
         plant_group |-> Get(kvm, "Group"),
         growth_habits_raw |-> Get(kvm, "Growth Habits"),
         native_status_raw |-> Get(kvm, "Native Status"),
         duration_raw |-> duration_raw,
         duration_primary |-> normalize_duration_primary(duration_raw),
         shade_tolerance |-> shade_tolerance,
         moisture_use |-> normalize_moisture_use(Get(kvm, "Moisture Use")),
         bloom_period |-> normalize_bloom_period(Get(kvm, "Bloom Period")),
         is_shade_tolerant |-> is_shade_tolerant(shade_tolerance),
         has_profile_kv |-> has_any_profile_kv(store, symbol),
         has_characteristics_kv |-> has_any_characteristics_kv(store, symbol),
         flower_conspicuous |-> flower_conspicuous,
         fall_conspicuous |-> fall_conspicuous,
         is_showy_bloomer |-> showy_bloomer(flower_conspicuous),
         has_fall_interest |-> fall_interest(fall_conspicuous),
         is_evergreen |-> evergreen(leaf_retention),
         last_indexed_at |-> last_indexed_at]

\* the INSERT alone, on a table without the key
upsert_filter_index_without_key(table, row) == table \cup { row }

\* INSERT ... ON DUPLICATE KEY UPDATE on the key symbol
upsert_filter_index(table, row) ==
    { r \in table : r.symbol # row.symbol } \cup { row }

\* the INSERT without the DELETE before it
refresh_durations_without_delete(table, symbol, duration_secondary) ==
    table \cup { [symbol |-> symbol, duration |-> d] : d \in duration_secondary }

\* DELETE ... WHERE symbol = %s, then INSERT of the new rows
refresh_durations(table, symbol, duration_secondary) ==
    { r \in table : r.symbol # symbol }
    \cup { [symbol |-> symbol, duration |-> d] : d \in duration_secondary }

refresh_growth_habits(table, symbol, growth_habits_raw) ==
    { r \in table : r.symbol # symbol }
    \cup { [symbol |-> symbol, growth_habit |-> h] : h \in growth_habit_tokens(growth_habits_raw) }

refresh_child_tables(d, symbol, duration_secondary, growth_habits_raw) ==
    [d EXCEPT !.plant_durations = refresh_durations(@, symbol, duration_secondary),
              !.plant_growth_habits = refresh_growth_habits(@, symbol, growth_habits_raw)]

EmptyDb ==
    [plant_traits_normalized |-> {}, plant_filter_index |-> {},
     plant_durations |-> {}, plant_growth_habits |-> {}]

----------------------------------------------------------------------------
(* The batch drivers: main() of build_traits_normalized.py, 01test.py and   *)
(* build_filter_index.py                                                    *)

vars == << text, out, obs, db, committed, pc, driver, args, symbols, i, j, kv,
           upserts, runs, exit_code, summary, prev, seen >>

MaxObs == 2
MaxRuns == 2
MaxLimit == 1
MaxCommitEvery == 2

Drivers == { "build_traits_normalized", "01test", "build_filter_index" }
TraitDrivers == { "build_traits_normalized", "01test" }

trait_map(d) == IF d = "01test" THEN TRAIT_MAP_01 ELSE TRAIT_MAP
trait_names(d) == { trait_map(d)[k].raw_name : k \in 1..Len(trait_map(d)) }

\* the observations the collection layer may append
Facts ==
    { [section |-> "Characteristics", trait_name |-> "Toxicity", trait_value |-> <<"H", "i", "g", "h">>, fetched_at |-> 1],
      [section |-> "Reproduction", trait_name |-> "Toxicity", trait_value |-> <<"N", "o", "n", "e">>, fetched_at |-> 1],
      [section |-> DIRECT, trait_name |-> "Toxic", trait_value |-> <<"Y", "e", "s">>, fetched_at |-> 1],
      [section |-> DIRECT, trait_name |-> "Flower Conspicuous", trait_value |-> <<"Y", "e", "s", " ", "(", "s", "h", "o", "w", "y", ")">>, fetched_at |-> 2],
      [section |-> "Characteristics", trait_name |-> "Flower Conspicuous", trait_value |-> <<"N", "o">>, fetched_at |-> 1],
      [section |-> "Profile / General Information", trait_name |-> "Duration", trait_value |-> <<"A", "n", "n", "u", "a", "l", ",", " ", "P", "e", "r", "e", "n", "n", "i", "a", "l">>, fetched_at |-> 1],
      [section |-> "Profile / General Information", trait_name |-> "Duration", trait_value |-> <<"B", "i", "e", "n", "n", "i", "a", "l">>, fetched_at |-> 2],
      [section |-> "Profile / General Information", trait_name |-> "Growth Habits", trait_value |-> <<"T", "r", "e", "e", ";", " ", "V", "i", "n", "e">>, fetched_at |-> 1],
      [section |-> "Profile / General Information", trait_name |-> "Family", trait_value |-> <<" ">>, fetched_at |-> 1],
      [section |-> "Growth Requirements", trait_name |-> "Palatable Human", trait_value |-> <<>>, fetched_at |-> 1] }

Observation(symbol, f) ==
    [symbol |-> symbol, section |-> f.section, trait_name |-> f.trait_name,
     trait_value |-> f.trait_value, fetched_at |-> f.fetched_at]

ObsUniverse ==
    { Observation("ABCD", f) : f \in Facts }
    \cup { Observation("EFGH", f) : f \in { g \in Facts : g.trait_name \in {"Toxicity", "Duration"} } }

\* the identity of an observation in plant_characteristics_kv
obs_key(o) == << o.symbol, o.section, o.trait_name, o.fetched_at >>

\* INSERT IGNORE INTO plant_characteristics_kv: a row whose key exists is dropped
insert_kv_rows(store, o) ==
    IF \E p \in store : obs_key(p) = obs_key(o) THEN store ELSE store \cup {o}

DefaultFetchId(d) == IF d = "build_filter_index" THEN <<1>> ELSE <<>>

\* the command lines of the model
RunArgs(d) ==
    { [state_code |-> "VA", fetch_id |-> DefaultFetchId(d), limit |-> l,
       commit_every |-> n, rebuild_children |-> r] :
        l \in 0..MaxLimit, n \in 1..MaxCommitEvery,
        r \in IF d = "build_filter_index" THEN BOOLEAN ELSE {FALSE} }
    \cup { [state_code |-> "VA", fetch_id |-> <<2>>, limit |-> 0, commit_every |-> 1,
            rebuild_children |-> (d = "build_filter_index")],
           [state_code |-> "MD", fetch_id |-> <<1>>, limit |-> 0, commit_every |-> 1,
            rebuild_children |-> FALSE] }

NoArgs == [state_code |-> "", fetch_id |-> <<>>, limit |-> 0, commit_every |-> 1,
           rebuild_children |-> FALSE]

EmptyKv == [n \in {} |-> NULL]
NoPrev == [valid |-> FALSE, driver |-> "", args |-> NoArgs, obs |-> {}, db |-> EmptyDb]
NoOut == [done |-> FALSE]

Running == pc \in { "fetch", "write", "children", "end" }

DriverInit ==
    /\ obs = {}
    /\ db = EmptyDb
    /\ committed = EmptyDb
    /\ pc = "idle"
    /\ driver = ""
    /\ args = NoArgs
    /\ symbols = <<>>
    /\ i = 0
    /\ j = 0
    /\ kv = EmptyKv
    /\ upserts = 0
    /\ runs = 0
    /\ exit_code = <<>>
    /\ summary = FALSE
    /\ prev = NoPrev
    /\ seen = {}

Init ==
    /\ text = <<>>
    /\ out = NoOut
    /\ DriverInit

\* the collection layer appends one observation while no driver runs
AppendFrom(universe) ==
    /\ ~Running
    /\ pc # "resolved"
    /\ Cardinality(obs) < MaxObs
    /\ \E o \in universe :
        /\ o \notin obs
        /\ obs' = insert_kv_rows(obs, o)
        /\ obs' # obs
    /\ UNCHANGED << text, out, db, committed, pc, driver, args, symbols, i, j, kv,
                    upserts, runs, exit_code, summary, prev, seen >>

AddObservation == AppendFrom(ObsUniverse)

\* what the previous run left, when it succeeded
Snapshot ==
    IF pc = "done"
    THEN [valid |-> TRUE, driver |-> driver, args |-> args, obs |-> seen, db |-> committed]
    ELSE NoPrev

\* the symbol list without the cut to --limit
scope_without_limit(d, a) == get_symbols_for_state(a.state_code, a.fetch_id)

\* symbols = get_symbols_for_state(...), cut to --limit: the traits drivers cut before the
\* emptiness test, the filter-index driver after it
scope(d, a) ==
    LET all == get_symbols_for_state(a.state_code, a.fetch_id)
    IN  IF a.limit > 0 THEN Take(all, a.limit) ELSE all

\* a precondition error that is swallowed: the run returns 0
ConfigErrorWithinSwallowed(max_runs) ==
    /\ ~Running
    /\ runs < max_runs
    /\ \E d \in Drivers : \E a \in RunArgs(d) :
        /\ driver' = d
        /\ args' = a
    /\ prev' = Snapshot
    /\ seen' = obs
    /\ runs' = runs + 1
    /\ pc' = "failed"
    /\ exit_code' = <<0>>
    /\ summary' = FALSE
    /\ symbols' = <<>>
    /\ i' = 0
    /\ j' = 0
    /\ kv' = EmptyKv
    /\ upserts' = 0
    /\ db' = committed
    /\ UNCHANGED << text, out, obs, committed >>

\* load_env() or get_db_config() raises: FileNotFoundError / ValueError, return 1
ConfigErrorWithin(max_runs) ==
    /\ ~Running
    /\ runs < max_runs
    /\ \E d \in Drivers : \E a \in RunArgs(d) :
        /\ driver' = d
        /\ args' = a
    /\ prev' = Snapshot
    /\ seen' = obs
    /\ runs' = runs + 1
    /\ pc' = "failed"
    /\ exit_code' = <<1>>
    /\ summary' = FALSE
    /\ symbols' = <<>>
    /\ i' = 0
    /\ j' = 0
    /\ kv' = EmptyKv
    /\ upserts' = 0
    /\ db' = committed
    /\ UNCHANGED << text, out, obs, committed >>

\* main() up to the loop: connect, select the symbols; RuntimeError when there are none
StartRunWithin(max_runs) ==
    /\ ~Running
    /\ runs < max_runs
    /\ \E d \in Drivers : \E a \in RunArgs(d) :
        /\ driver' = d
        /\ args' = a
        /\ symbols' = scope(d, a)
        /\ IF scope(d, a) = <<>>
           THEN /\ pc' = "failed"
                /\ exit_code' = <<1>>
                /\ i' = 0
           ELSE /\ pc' = "fetch"
                /\ exit_code' = <<>>
                /\ i' = 1
    /\ prev' = Snapshot
    /\ seen' = obs
    /\ runs' = runs + 1
    /\ summary' = FALSE
    /\ j' = 0
    /\ kv' = EmptyKv
    /\ upserts' = 0
    /\ db' = committed
    /\ UNCHANGED << text, out, obs, committed >>

\* a run, while the model allows another one
ConfigError == ConfigErrorWithin(MaxRuns)
StartRun == StartRunWithin(MaxRuns)

\* the first run over a freshly collected store
FirstConfigError == ConfigErrorWithin(1)
FirstRun == StartRunWithin(1)

\* kv = fetch_latest_kv(cur, symbol, trait_names)
FetchLatestKv ==
    /\ pc = "fetch"
    /\ driver \in TraitDrivers
    /\ kv' \in fetch_latest_kv(obs, symbols[i], trait_names(driver))
    /\ pc' = "write"
    /\ j' = 1
    /\ UNCHANGED << text, out, obs, db, committed, driver, args, symbols, i,
                    upserts, runs, exit_code, summary, prev, seen >>

\* a resolver that deletes the observations of the symbol once it has read them
FetchLatestKvMapConsuming ==
    /\ pc = "fetch"
    /\ driver = "build_filter_index"
    /\ \E m \in fetch_latest_kv_map(obs, symbols[i]) :
        /\ normalize_seasonal_interest(Get(m, "Family")) # IndexError
        /\ kv' = m
    /\ obs' = { o \in obs : o.symbol # symbols[i] }
    /\ pc' = "write"
    /\ j' = 1
    /\ UNCHANGED << text, out, db, committed, driver, args, symbols, i,
                    upserts, runs, exit_code, summary, prev, seen >>

\* canonical = ...; kv = fetch_latest_kv_map(cur, symbol); the derived values are computed
FetchLatestKvMap ==
    /\ pc = "fetch"
    /\ driver = "build_filter_index"
    /\ \E m \in fetch_latest_kv_map(obs, symbols[i]) :
        /\ normalize_seasonal_interest(Get(m, "Family")) # IndexError
        /\ kv' = m
    /\ pc' = "write"
    /\ j' = 1
    /\ UNCHANGED << text, out, obs, db, committed, driver, args, symbols, i,
                    upserts, runs, exit_code, summary, prev, seen >>

\* normalize_seasonal_interest raises IndexError, which main() does not catch: the
\* interpreter exits with status 1 and the connection is dropped uncommitted
ComputeError ==
    /\ pc = "fetch"
    /\ driver = "build_filter_index"
    /\ \E m \in fetch_latest_kv_map(obs, symbols[i]) :
        /\ normalize_seasonal_interest(Get(m, "Family")) = IndexError
        /\ kv' = m
    /\ pc' = "crashed"
    /\ exit_code' = <<1>>
    /\ db' = committed
    /\ UNCHANGED << text, out, obs, committed, driver, args, symbols, i, j,
                    upserts, runs, summary, prev, seen >>

\* the loop body without `if not normalized: continue`
to_upsert_without_skip(d, kvm, from) ==
    { k \in from..Len(trait_map(d)) : trait_map(d)[k].raw_name \in DOMAIN kvm }

\* the entries of the trait map from position j on for which the loop body issues an upsert
to_upsert(d, kvm, from) ==
    { k \in from..Len(trait_map(d)) :
        /\ trait_map(d)[k].raw_name \in DOMAIN kvm
        /\ ~Falsy(Apply(trait_map(d)[k].normalizer, kvm[trait_map(d)[k].raw_name].value)) }

Min(S) == CHOOSE x \in S : \A y \in S : x <= y

\* the upsert followed by a commit of its own
UpsertTraitCommitting ==
    /\ pc = "write"
    /\ driver \in TraitDrivers
    /\ to_upsert(driver, kv, j) # {}
    /\ LET k == Min(to_upsert(driver, kv, j))
           e == trait_map(driver)[k]
           raw_val == kv[e.raw_name].value
       IN  /\ db' = [db EXCEPT !.plant_traits_normalized =
                        upsert_trait(@, symbols[i], e.trait_key, Apply(e.normalizer, raw_val),
                                     e.value_type, SOURCE_SYSTEM, e.raw_name, raw_val, runs)]
           /\ j' = k + 1
    /\ committed' = db'
    /\ upserts' = upserts + 1
    /\ UNCHANGED << text, out, obs, pc, driver, args, symbols, i, kv,
                    runs, exit_code, summary, prev, seen >>

\* the loop over TRAIT_MAP up to and including its next upsert_trait(...)
UpsertTrait ==
    /\ pc = "write"
    /\ driver \in TraitDrivers
    /\ to_upsert(driver, kv, j) # {}
    /\ LET k == Min(to_upsert(driver, kv, j))
           e == trait_map(driver)[k]
           raw_val == kv[e.raw_name].value
       IN  /\ db' = [db EXCEPT !.plant_traits_normalized =
                        upsert_trait(@, symbols[i], e.trait_key, Apply(e.normalizer, raw_val),
                                     e.value_type, SOURCE_SYSTEM, e.raw_name, raw_val, runs)]
           /\ j' = k + 1
    /\ upserts' = upserts + 1
    /\ UNCHANGED << text, out, obs, committed, pc, driver, args, symbols, i, kv, runs, exit_code, summary, prev, seen >>

\* upsert_filter_index(...); upserts += 1
UpsertFilterIndex ==
    /\ pc = "write"
    /\ driver = "build_filter_index"
    /\ db' = [db EXCEPT !.plant_filter_index =
                upsert_filter_index(@, filter_index_row(obs, symbols[i],
                                        get_canonical_fields(symbols[i]), kv, runs))]
    /\ upserts' = upserts + 1
    /\ pc' = IF args.rebuild_children THEN "children" ELSE "end"
    /\ UNCHANGED << text, out, obs, committed, driver, args, symbols, i, j, kv, runs, exit_code, summary, prev, seen >>

\* if args.rebuild_children: refresh_child_tables(...)
RefreshChildTables ==
    /\ pc = "children"
    /\ db' = refresh_child_tables(db, symbols[i], split_duration_set(Get(kv, "Duration")),
                                  Get(kv, "Growth Habits"))
    /\ pc' = "end"
    /\ UNCHANGED << text, out, obs, committed, driver, args, symbols, i, j, kv,
                    upserts, runs, exit_code, summary, prev, seen >>

\* the error handler committing what the transaction holds
StoreWriteErrorCommitting ==
    /\ \/ pc = "write" /\ driver \in TraitDrivers /\ to_upsert(driver, kv, j) # {}
       \/ pc \in {"write", "children"} /\ driver = "build_filter_index"
    /\ pc' = "failed"
    /\ exit_code' = <<1>>
    /\ committed' = db
    /\ UNCHANGED << text, out, obs, db, driver, args, symbols, i, j, kv,
                    upserts, runs, summary, prev, seen >>

\* a write statement raises MySQLError: main() returns 1 (the filter-index driver after
\* conn.rollback(), the trait drivers by leaving the connection to be dropped)
StoreWriteError ==
    /\ \/ pc = "write" /\ driver \in TraitDrivers /\ to_upsert(driver, kv, j) # {}
       \/ pc \in {"write", "children"} /\ driver = "build_filter_index"
    /\ pc' = "failed"
    /\ exit_code' = <<1>>
    /\ db' = committed
    /\ UNCHANGED << text, out, obs, committed, driver, args, symbols, i, j, kv,
                    upserts, runs, summary, prev, seen >>

\* the test `i % commit_every == ...` that guards conn.commit() inside the loop
commit_due(d, n, commit_every) ==
    IF d = "build_traits_normalized" THEN n % commit_every = 25 ELSE n % commit_every = 0

SymbolDone ==
    \/ pc = "write" /\ driver \in TraitDrivers /\ to_upsert(driver, kv, j) = {}
    \/ pc = "end"

\* the end of a loop iteration that is not the last: the batch commit, then the next symbol
NextSymbol ==
    /\ SymbolDone
    /\ i < Len(symbols)
    /\ committed' = IF commit_due(driver, i, args.commit_every) THEN db ELSE committed
    /\ i' = i + 1
    /\ pc' = "fetch"
    /\ UNCHANGED << text, out, obs, db, driver, args, symbols, j, kv,
                    upserts, runs, exit_code, summary, prev, seen >>

\* the end of the last iteration: the batch commit, the final conn.commit(), the summary
FinishRun ==
    /\ SymbolDone
    /\ i = Len(symbols)
    /\ committed' = db
    /\ pc' = "done"
    /\ exit_code' = <<0>>
    /\ summary' = TRUE
    /\ UNCHANGED << text, out, obs, db, driver, args, symbols, i, j, kv,
                    upserts, runs, prev, seen >>

Next ==
    \/ AddObservation
    \/ ConfigError
    \/ StartRun
    \/ FetchLatestKv
    \/ FetchLatestKvMap
    \/ ComputeError
    \/ UpsertTrait
    \/ UpsertFilterIndex
    \/ RefreshChildTables
    \/ StoreWriteError
    \/ NextSymbol
    \/ FinishRun

Spec == Init /\ [][Next]_vars

\* one run over a freshly collected store
NextRun ==
    \/ AddObservation
    \/ FirstConfigError
    \/ FirstRun
    \/ FetchLatestKv
    \/ FetchLatestKvMap
    \/ ComputeError
    \/ UpsertTrait
    \/ UpsertFilterIndex
    \/ RefreshChildTables
    \/ StoreWriteError
    \/ NextSymbol
    \/ FinishRun

SpecRun == Init /\ [][NextRun]_vars

----------------------------------------------------------------------------
(* The resolvers alone, over a store that holds every kind of observation   *)

ResolveUniverse ==
    { [symbol |-> "ABCD", section |-> s, trait_name |-> n, trait_value |-> v, fetched_at |-> t] :
        s \in { DIRECT, "Characteristics", "Reproduction" },
        n \in { "Flower Conspicuous", "Toxicity" },
        v \in { NULL, <<" ">>, Yes, No },
        t \in { 1, 2 } }
    \cup { [symbol |-> "EFGH", section |-> DIRECT, trait_name |-> n, trait_value |-> Unknown,
            fetched_at |-> 2] : n \in { "Flower Conspicuous", "Toxicity" } }

AppendObservation == AppendFrom(ResolveUniverse)

\* fetch_latest_kv(cur, symbol, trait_names) of one of the trait drivers
ResolveKv ==
    /\ pc = "idle"
    /\ \E d \in TraitDrivers : \E s \in { AllSymbols[k] : k \in 1..Len(AllSymbols) } :
        /\ driver' = d
        /\ symbols' = << s >>
        /\ kv' \in fetch_latest_kv(obs, s, trait_names(d))
    /\ i' = 1
    /\ pc' = "resolved"
    /\ UNCHANGED << text, out, obs, db, committed, args, j, upserts,
                    runs, exit_code, summary, prev, seen >>

\* fetch_latest_kv_map(cur, symbol) of the filter-index driver
ResolveKvMap ==
    /\ pc = "idle"
    /\ \E s \in { AllSymbols[k] : k \in 1..Len(AllSymbols) } :
        /\ symbols' = << s >>
        /\ kv' \in fetch_latest_kv_map(obs, s)
    /\ driver' = "build_filter_index"
    /\ i' = 1
    /\ pc' = "resolved"
    /\ UNCHANGED << text, out, obs, db, committed, args, j, upserts,
                    runs, exit_code, summary, prev, seen >>

NextResolve ==
    \/ AppendObservation
    \/ ResolveKv
    \/ ResolveKvMap

SpecResolve == Init /\ [][NextResolve]_vars

----------------------------------------------------------------------------
(* The normalizers alone, over every short text and some longer ones        *)

MaxLen == 3

Alphabet == { "y", "e", "s", "Y", "n", "o", "d", "-", "1", " ", ",", ";" }

Examples ==
    { <<"B", "e", "t", "w", "e", "e", "n", " ", "-", "1", "0", " ", "a", "n", "d", " ", "2", "0", " ", "F">>,
      <<"Y", "e", "s", " ", "(", "s", "h", "o", "w", "y", ")">>,
      <<"Y", "E", "S">>,
      <<"N", "o", " ", "d", "a", "t", "a">>,
      <<"t", "r", "u", "e">>,
      <<"f", "a", "l", "s", "e">>,
      <<"t">>,
      <<"f">>,
      <<"0">>,
      <<"A", "n", "n", "u", "a", "l", ",", " ", "s", "o", "m", "e", "t", "i", "m", "e", "s", " ", "P", "e", "r", "e", "n", "n", "i", "a", "l">>,
      <<"l", "o", "w">>,
      <<"L", "o", "w">>,
      <<"u", "n", "r", "e", "c", "o", "g", "n", "i", "z", "e", "d", " ", "t", "o", "k", "e", "n">>,
      <<"x", " ", "T", "a", "x", "a", "c", "e", "a", "e">>,
      <<"T", "a", "x", "a", "c", "e", "a", "e">>,
      <<"T", "r", "e", "e", ";", " ", "S", "h", "r", "u", "b", ",", " ", "V", "i", "n", "e">>,
      <<"2", "0", " ", "f", "e", "e", "t">>,
      <<" ", " ", "Y", "e", "s", " ", " ">>,
      <<"x", "T", "a", "x", "a", "c", "e", "a", "e">>,
      <<"A", "R", "E", "C", "A", "C", "E", "A", "E", " ", " ", "(", "p", "a", "l", "m", "s", ")">>,
      <<"e", "A", "R", "L", "Y", " ", " ", " ", "s", "P", "R", "I", "N", "G">>,
      <<" ", "r", "E", "d", " ">>,
      <<"B", "i", "e", "n", "n", "i", "a", "l">>,
      <<"A", "N", "N", "U", "A", "L">>,
      <<"A", "n", "n", "u", "a", "l", ",", " ", "B", "i", "e", "n", "n", "i", "a", "l">>,
      <<"L", "o", "w", "l", "y">> }

TextInputs ==
    { NULL } \cup Examples \cup UNION { [1..n -> Alphabet] : n \in 0..MaxLen }

TextInit ==
    /\ text \in TextInputs
    /\ out = NoOut
    /\ DriverInit

\* every normalizer applied to the text
Normalize ==
    /\ ~out.done
    /\ out' = [done |-> TRUE,
               yes_no |-> normalize_yes_no(text),
               yes_no_01 |-> normalize_yes_no_01(text),
               unknown |-> normalize_unknown(text),
               enum |-> normalize_enum(text),
               number |-> normalize_number(text),
               low_med_high |-> normalize_low_med_high(text),
               text |-> normalize_text(text),
               moisture_use |-> normalize_moisture_use(text),
               bloom_period |-> normalize_bloom_period(text),
               shade_tolerance |-> normalize_shade_tolerance(text),
               duration_primary |-> normalize_duration_primary(text),
               duration_set |-> split_duration_set(text),
               seasonal_interest |-> normalize_seasonal_interest(text),
               growth_habits |-> growth_habit_tokens(text)]
    /\ UNCHANGED << text, obs, db, committed, pc, driver, args, symbols, i, j, kv,
                    upserts, runs, exit_code, summary, prev, seen >>

NextText == Normalize

SpecText == TextInit /\ [][NextText]_vars

----------------------------------------------------------------------------
(* Successive runs of the filter-index driver over the observations its     *)
(* child tables are built from                                              *)

ChildUniverse == { o \in ObsUniverse : o.trait_name \in { "Duration", "Growth Habits" } }

AppendChildObservation == AppendFrom(ChildUniverse)

\* main() of build_filter_index.py up to its loop, run without --limit
StartFilterIndex ==
    /\ StartRunWithin(MaxRuns)
    /\ driver' = "build_filter_index"
    /\ args'.limit = 0

NextRebuild ==
    \/ AppendChildObservation
    \/ StartFilterIndex
    \/ FetchLatestKvMap
    \/ UpsertFilterIndex
    \/ RefreshChildTables
    \/ StoreWriteError
    \/ NextSymbol
    \/ FinishRun

SpecRebuild == Init /\ [][NextRebuild]_vars

----------------------------------------------------------------------------
(* Successive runs of the filter-index driver over the observations its     *)
(* flags are derived from                                                   *)

IndexFacts ==
    { [section |-> DIRECT, trait_name |-> "Flower Conspicuous", trait_value |-> <<"Y", "e", "s", " ", "(", "s", "h", "o", "w", "y", ")">>, fetched_at |-> 2],
      [section |-> "Characteristics", trait_name |-> "Flower Conspicuous", trait_value |-> <<"N", "o">>, fetched_at |-> 1],
      [section |-> "Morphology/Physiology", trait_name |-> "Fall Conspicuous", trait_value |-> <<"N", "o">>, fetched_at |-> 1],
      [section |-> "Morphology/Physiology", trait_name |-> "Leaf Retention", trait_value |-> <<"Y", "e", "s">>, fetched_at |-> 1],
      [section |-> "Reproduction", trait_name |-> "Toxicity", trait_value |-> <<"N", "o", "n", "e">>, fetched_at |-> 1],
      [section |-> "Growth Requirements", trait_name |-> "Palatable Human", trait_value |-> <<>>, fetched_at |-> 1] }

IndexUniverse ==
    { Observation("ABCD", f) : f \in IndexFacts }
    \cup { Observation("EFGH", f) : f \in { g \in IndexFacts : g.trait_name \in { "Toxicity", "Leaf Retention" } } }

AppendIndexObservation == AppendFrom(IndexUniverse)

\* main() of build_filter_index.py up to its loop, run with --commit-every 1 and
\* without --rebuild-children
StartIndexRun ==
    /\ StartRunWithin(MaxRuns)
    /\ driver' = "build_filter_index"
    /\ args'.commit_every = 1
    /\ ~args'.rebuild_children

NextIndex ==
    \/ AppendIndexObservation
    \/ StartIndexRun
    \/ FetchLatestKvMap
    \/ UpsertFilterIndex
    \/ StoreWriteError
    \/ NextSymbol
    \/ FinishRun

SpecIndex == Init /\ [][NextIndex]_vars

----------------------------------------------------------------------------
(* Successive runs of the trait drivers over observations of two trait keys *)

TraitFacts ==
    { [section |-> "Characteristics", trait_name |-> "Toxicity", trait_value |-> <<"H", "i", "g", "h">>, fetched_at |-> 1],
      [section |-> "Reproduction", trait_name |-> "Toxicity", trait_value |-> <<"N", "o", "n", "e">>, fetched_at |-> 1],
      [section |-> DIRECT, trait_name |-> "Toxicity", trait_value |-> <<"S", "l", "i", "g", "h", "t">>, fetched_at |-> 2],
      [section |-> DIRECT, trait_name |-> "Toxic", trait_value |-> <<"Y", "e", "s">>, fetched_at |-> 1],
      [section |-> "Characteristics", trait_name |-> "Palatable Human", trait_value |-> <<"y", "e", "s">>, fetched_at |-> 1],
      [section |-> DIRECT, trait_name |-> "Palatable Human", trait_value |-> <<"M", "a", "y", "b", "e">>, fetched_at |-> 2] }

TraitUniverse ==
    { Observation("ABCD", f) : f \in TraitFacts }
    \cup { Observation("EFGH", f) : f \in { g \in TraitFacts : g.section = "Characteristics" } }

AppendTraitObservation == AppendFrom(TraitUniverse)

\* main() of build_traits_normalized.py or 01test.py up to its loop
StartTraitRun ==
    /\ StartRunWithin(MaxRuns)
    /\ driver' \in TraitDrivers
    /\ args'.limit = 0
    /\ args'.commit_every = 1
    /\ args'.state_code = "VA"

NextTraits ==
    \/ AppendTraitObservation
    \/ StartTraitRun
    \/ FetchLatestKv
    \/ UpsertTrait
    \/ StoreWriteError
    \/ NextSymbol
    \/ FinishRun

SpecTraits == Init /\ [][NextTraits]_vars

----------------------------------------------------------------------------
(* Successive runs of the two drivers, some of which fail before their loop *)

\* a command line of build_traits_normalized.py or build_filter_index.py without --limit
\* and --rebuild-children, for a state with or without plants
PlainRun ==
    /\ args'.limit = 0
    /\ args'.commit_every = 1
    /\ ~args'.rebuild_children
    /\ args'.fetch_id # <<2>>
    /\ driver' \in { "build_traits_normalized", "build_filter_index" }

\* load_env() or get_db_config() raises in a run that follows other runs
LaterConfigError ==
    /\ ConfigErrorWithin(MaxRuns)
    /\ PlainRun

\* main() up to its loop, in a run that follows other runs
LaterRun ==
    /\ StartRunWithin(MaxRuns)
    /\ PlainRun

NextAbort ==
    \/ AppendIndexObservation
    \/ LaterConfigError
    \/ LaterRun
    \/ FetchLatestKv
    \/ FetchLatestKvMap
    \/ UpsertTrait
    \/ UpsertFilterIndex
    \/ StoreWriteError
    \/ NextSymbol
    \/ FinishRun

SpecAbort == Init /\ [][NextAbort]_vars

----------------------------------------------------------------------------
(* The properties checked                                                   *)

\* a value that is NULL or holds nothing but spaces
IsBlank(v) == v = NULL \/ \A k \in 1..Len(v) : v[k] = " "

\* the observations of a symbol for a trait name
ObsOf(symbol, name) == { o \in obs : o.symbol = symbol /\ o.trait_name = name }

\* an observation as fetch_latest_kv returns it
Entry(o) == [value |-> o.trait_value, section |-> o.section, fetched_at |-> o.fetched_at]

\* C1: when a requested trait name of the symbol has an observation in section
\* 'Direct Trait Lookup', fetch_latest_kv returns an observation of that section for it,
\* whatever the ages and values of the observations in other sections.
C1_DirectLookupPrecedence ==
    (pc = "resolved" /\ driver \in TraitDrivers) =>
        \A n \in trait_names(driver) :
            (\E o \in ObsOf(symbols[1], n) : o.section = DIRECT) =>
                /\ n \in DOMAIN kv
                /\ \E o \in ObsOf(symbols[1], n) : o.section = DIRECT /\ kv[n] = Entry(o)

\* an older direct-lookup observation returned over a newer, non-empty one of another section
C1_Witness ==
    /\ pc = "resolved"
    /\ driver \in TraitDrivers
    /\ \E n \in DOMAIN kv : \E a, b \in ObsOf(symbols[1], n) :
        /\ a.section = DIRECT
        /\ b.section # DIRECT
        /\ a.fetched_at < b.fetched_at
        /\ ~IsBlank(b.trait_value)
        /\ a.trait_value # b.trait_value
        /\ kv[n] = Entry(a)

\* C2: of two observations of the same symbol, trait name and section, one non-empty after
\* trimming and one empty or null, neither resolver returns the empty one, however new it is.
C2_NonEmptyPreferred ==
    pc = "resolved" =>
        \A n \in DOMAIN kv : \A a, b \in ObsOf(symbols[1], n) :
            (a.section = b.section /\ ~IsBlank(a.trait_value) /\ IsBlank(b.trait_value)) =>
                IF driver \in TraitDrivers THEN kv[n] # Entry(b) ELSE kv[n] # b.trait_value

\* an older non-empty observation returned over a newer empty one of its section
C2_Witness ==
    /\ pc = "resolved"
    /\ \E n \in DOMAIN kv : \E a, b \in ObsOf(symbols[1], n) :
        /\ a.section = b.section
        /\ ~IsBlank(a.trait_value)
        /\ IsBlank(b.trait_value)
        /\ a.fetched_at < b.fetched_at
        /\ IF driver \in TraitDrivers THEN kv[n] = Entry(a) ELSE kv[n] = a.trait_value

\* the two keyed tables with their timestamps blanked
WithoutTimestamps(d) ==
    [plant_traits_normalized |->
        { [r EXCEPT !.last_computed_at = 0] : r \in d.plant_traits_normalized },
     plant_filter_index |->
        { [r EXCEPT !.last_indexed_at = 0] : r \in d.plant_filter_index }]

\* C3: a driver run a second time with the same command line over the same observations
\* leaves the NormalizedTrait and FilterIndexRecord rows of the first run, timestamps aside.
C3_Idempotent ==
    (/\ pc = "done"
     /\ driver \in { "build_traits_normalized", "build_filter_index" }
     /\ prev.valid /\ prev.driver = driver /\ prev.args = args /\ prev.obs = obs) =>
        WithoutTimestamps(committed) = WithoutTimestamps(prev.db)

Digits == { "0", "1", "2", "3", "4", "5", "6", "7", "8", "9" }

RECURSIVE digit_run(_)
digit_run(s) == IF s # <<>> /\ Head(s) \in Digits THEN <<Head(s)>> \o digit_run(Tail(s)) ELSE <<>>

\* the first signed integer substring of a text, NULL when it holds no digit
RECURSIVE first_signed_integer(_)
first_signed_integer(s) ==
    IF s = <<>> THEN NULL
    ELSE IF Head(s) = "-" /\ Len(s) >= 2 /\ s[2] \in Digits THEN <<"-">> \o digit_run(Tail(s))
    ELSE IF Head(s) \in Digits THEN digit_run(s)
    ELSE first_signed_integer(Tail(s))

\* C4: normalize_number returns the first signed integer substring of the text, and None
\* for a text without a digit.
C4_NumericExtraction ==
    out.done =>
        out.number = (IF text = NULL THEN NULL ELSE first_signed_integer(text))

\* C5: every yes/no normalizer gives 'Yes' for a text that, whitespace collapsed and in any
\* letter case, starts with 'yes' or is y/true/t/1, and 'No' for one that starts with 'no'
\* or is n/false/f/0.
C5_YesNoForms ==
    (out.done /\ text # NULL) =>
        LET v == lower(collapse(text)) IN
        /\ (startswith(v, <<"y", "e", "s">>) \/ v \in { <<"y">>, <<"t", "r", "u", "e">>, <<"t">>, <<"1">> }) =>
              (out.yes_no = Yes /\ out.yes_no_01 = Yes /\ out.unknown = Yes)
        /\ (startswith(v, <<"n", "o">>) \/ v \in { <<"n">>, <<"f", "a", "l", "s", "e">>, <<"f">>, <<"0">> }) =>
              (out.yes_no = No /\ out.yes_no_01 = No /\ out.unknown = No)

\* the rows a symbol has in the destination tables
symbol_rows(d, s) ==
    [traits |-> { r \in d.plant_traits_normalized : r.symbol = s },
     index |-> { r \in d.plant_filter_index : r.symbol = s },
     durations |-> { r \in d.plant_durations : r.symbol = s },
     habits |-> { r \in d.plant_growth_habits : r.symbol = s }]

NoRows == symbol_rows(EmptyDb, "")

\* the symbols of the run that have writes the last commit does not cover
UncommittedSymbols ==
    { s \in { symbols[k] : k \in 1..Len(symbols) } : symbol_rows(db, s) # symbol_rows(committed, s) }

\* C6: with commit batch size N, at no point of a run do more than N symbols have
\* uncommitted writes, and a successful run ends with nothing uncommitted.
C6_BatchedDurability ==
    /\ Running => Cardinality(UncommittedSymbols) <= args.commit_every
    /\ pc = "done" => committed = db

durations_of(d, s) == { r.duration : r \in { q \in d.plant_durations : q.symbol = s } }
habits_of(d, s) == { r.growth_habit : r \in { q \in d.plant_growth_habits : q.symbol = s } }

\* C7 as claimed: once the filter-index driver has recomputed a symbol, its stored duration
\* set and growth-habit set are those of the resolved Duration and Growth Habits.
C7_ChildrenReplacedOnEachRecompute ==
    (pc = "end" /\ driver = "build_filter_index") =>
        /\ durations_of(db, symbols[i]) = split_duration_set(Get(kv, "Duration"))
        /\ habits_of(db, symbols[i]) = growth_habit_tokens(Get(kv, "Growth Habits"))

\* C7, amended: when the driver runs with --rebuild-children, the rebuild of a symbol leaves
\* as its duration set and growth-habit set exactly those of the resolved Duration and
\* Growth Habits, no earlier child row of the symbol surviving, and leaves the child rows of
\* every other symbol as they were.
C7_ChildrenReplacedOnRebuild ==
    [][(pc = "children" /\ pc' = "end") =>
         /\ args.rebuild_children
         /\ durations_of(db', symbols[i]) = split_duration_set(Get(kv, "Duration"))
         /\ habits_of(db', symbols[i]) = growth_habit_tokens(Get(kv, "Growth Habits"))
         /\ \A s \in { AllSymbols[k] : k \in 1..Len(AllSymbols) } \ { symbols[i] } :
              /\ durations_of(db', s) = durations_of(db, s)
              /\ habits_of(db', s) = habits_of(db, s)]_vars

\* a rebuild that removed a duration row an earlier run had stored for the symbol
C7_Witness ==
    /\ pc = "end"
    /\ args.rebuild_children
    /\ durations_of(db, symbols[i]) # {}
    /\ durations_of(committed, symbols[i]) \ durations_of(db, symbols[i]) # {}

\* C8: no run is aborted by an error of the computation for one symbol.
C8_ComputeErrorIsolated == pc # "crashed"

\* C9: in every committed state, a symbol the run has finished has all the writes of its
\* computation or none of them, and a symbol in progress or still to come has none.
C9_PerSymbolAtomicity ==
    \A k \in 1..Len(symbols) :
        /\ (k >= i /\ pc # "done") => symbol_rows(committed, symbols[k]) = NoRows
        /\ (k < i \/ pc = "done") =>
              symbol_rows(committed, symbols[k]) \in { NoRows, symbol_rows(db, symbols[k]) }

\* the first symbol committed whole while the second has writes in the open transaction
C9_Witness ==
    /\ pc \in { "write", "children", "end" }
    /\ i = 2
    /\ symbol_rows(committed, symbols[1]) # NoRows
    /\ symbol_rows(db, symbols[2]) # NoRows
    /\ symbol_rows(committed, symbols[2]) = NoRows

\* C10: a failing store write ends the run with exit code 1 and no summary; what was
\* committed before stays, and nothing written since the last commit is in the store.
C10_StoreWriteError ==
    /\ [](pc = "failed" => (exit_code = <<1>> /\ ~summary /\ db = committed))
    /\ [][(Running /\ pc' = "failed") => committed' = committed]_vars

\* a run failed at its second symbol: the first symbol's write is committed, a later
\* write was issued and is gone
C10_Witness ==
    /\ pc = "failed"
    /\ i = 2
    /\ upserts = 2
    /\ symbol_rows(committed, symbols[1]) # NoRows
    /\ symbol_rows(committed, symbols[2]) = NoRows

\* the families with only evergreen members
EvergreenFamilies == { <<"a", "r", "e", "c", "a", "c", "e", "a", "e">>, <<"t", "a", "x", "a", "c", "e", "a", "e">>, <<"a", "r", "a", "u", "c", "a", "r", "i", "a", "c", "e", "a", "e">>, <<"p", "o", "d", "o", "c", "a", "r", "p", "a", "c", "e", "a", "e">> }

\* a family name without the "x" that marks a hybrid
WithoutHybridPrefix(s) == IF s # <<>> /\ Head(s) = "x" THEN Tail(s) ELSE s

\* C11: normalize_seasonal_interest gives 'Yes' when the first token of the family, its
\* hybrid prefix "x" stripped and lower-cased, is one of the evergreen families, and
\* 'Unknown' for every other family, the empty and the whitespace-only ones included; it
\* never gives 'No' and never fails.
C11_EvergreenFamily ==
    out.done =>
        /\ out.seasonal_interest \in { Yes, Unknown }
        /\ out.seasonal_interest = Yes <=>
              /\ text # NULL
              /\ split(WithoutHybridPrefix(text)) # <<>>
              /\ lower(split(WithoutHybridPrefix(text))[1]) \in EvergreenFamilies

\* the label of the allowed set a text is a letter-case variant of, whitespace collapsed
LabelsOf(s) == { a \in allowed : lower(a) = lower(collapse(s)) }

\* C12: normalize_enum gives 'Unknown' for NULL, for the empty text and for every text
\* that, whitespace collapsed, is no letter-case variant of an allowed label, and gives the
\* label for every letter-case variant of it; the result is an allowed label or 'Unknown'.
C12_EnumClosure ==
    out.done =>
        /\ out.enum \in allowed \cup { Unknown }
        /\ IF text = NULL \/ LabelsOf(text) = {}
           THEN out.enum = Unknown
           ELSE out.enum \in LabelsOf(text)

\* a text that is no allowed label as written and is normalized to one
C12_Witness ==
    /\ out.done
    /\ text # NULL
    /\ text \notin allowed
    /\ collapse(text) # text
    /\ out.enum \in allowed

\* a text in which the word occurs, letter case aside
Occurs(word, s) ==
    \E k \in 0..(Len(s) - Len(word)) : lower(SubSeq(s, k + 1, k + Len(word))) = lower(word)

\* C15: normalize_duration_primary gives the first of 'Perennial', 'Biennial', 'Annual'
\* that occurs in the text, letter case aside, and 'Unknown' when none does;
\* split_duration_set gives all of the three that occur; the primary is in the set
\* whenever the set is not empty.
C15_DurationClassification ==
    out.done =>
        /\ out.duration_primary =
              (IF Occurs(Perennial, text) THEN Perennial
               ELSE IF Occurs(Biennial, text) THEN Biennial
               ELSE IF Occurs(Annual, text) THEN Annual
               ELSE Unknown)
        /\ out.duration_set = { d \in { Perennial, Biennial, Annual } : Occurs(d, text) }
        /\ out.duration_set # {} => out.duration_primary \in out.duration_set
        /\ out.duration_set = {} => out.duration_primary = Unknown

\* 'Annual, sometimes Perennial' classified 'Perennial' with the set of both
C15_Witness ==
    /\ out.done
    /\ text = <<"A", "n", "n", "u", "a", "l", ",", " ", "s", "o", "m", "e", "t", "i", "m", "e", "s", " ", "P", "e", "r", "e", "n", "n", "i", "a", "l">>
    /\ out.duration_primary = Perennial
    /\ out.duration_set = { Annual, Perennial }

\* C13: what a resolver returns for a symbol is determined by the set of observations:
\* every evaluation over the observations at hand returns the result this one returned,
\* also when observations of a trait tie in the ordering and differ in value.
C13_ResolverDeterministic ==
    pc = "resolved" =>
        IF driver \in TraitDrivers
        THEN fetch_latest_kv(obs, symbols[1], trait_names(driver)) = { kv }
        ELSE fetch_latest_kv_map(obs, symbols[1]) = { kv }

\* the plant_filter_index row of a symbol
index_row(d, s) == CHOOSE r \in d.plant_filter_index : r.symbol = s

\* the flag of a yes/no/unknown value
TriState(v) == IF v = Yes THEN 1 ELSE IF v = No THEN 0 ELSE 2

\* the observations of the end-to-end scenario for a symbol
ScenarioObservations(s) ==
    { [symbol |-> s, section |-> DIRECT, trait_name |-> "Flower Conspicuous",
       trait_value |-> <<"Y", "e", "s", " ", "(", "s", "h", "o", "w", "y", ")">>, fetched_at |-> 2],
      [symbol |-> s, section |-> "Characteristics", trait_name |-> "Flower Conspicuous",
       trait_value |-> No, fetched_at |-> 1] }

\* C14: in every stored filter-index row the flags are 0, 1 or 2 and is_showy_bloomer and
\* has_fall_interest mirror the row's flower_conspicuous and fall_conspicuous; the row the
\* driver has just written for a symbol has the normalized resolved 'Flower Conspicuous',
\* 'Fall Conspicuous' and 'Leaf Retention' (absent counting as 'Unknown') in its value
\* columns and flags; with the two observations of the scenario the row has
\* flower_conspicuous 'Yes' and is_showy_bloomer 1.
C14_TriStateMirrors ==
    /\ \A r \in db.plant_filter_index \cup committed.plant_filter_index :
        /\ { r.is_showy_bloomer, r.has_fall_interest, r.is_evergreen } \subseteq { 0, 1, 2 }
        /\ r.is_showy_bloomer = TriState(r.flower_conspicuous)
        /\ r.has_fall_interest = TriState(r.fall_conspicuous)
    /\ (pc = "end" /\ driver = "build_filter_index") =>
        LET r == index_row(db, symbols[i]) IN
        /\ r.flower_conspicuous = normalize_unknown(Get(kv, "Flower Conspicuous"))
        /\ r.fall_conspicuous = normalize_unknown(Get(kv, "Fall Conspicuous"))
        /\ r.is_showy_bloomer = TriState(normalize_unknown(Get(kv, "Flower Conspicuous")))
        /\ r.has_fall_interest = TriState(normalize_unknown(Get(kv, "Fall Conspicuous")))
        /\ r.is_evergreen = TriState(normalize_unknown(Get(kv, "Leaf Retention")))
        /\ ObsOf(symbols[i], "Flower Conspicuous") = ScenarioObservations(symbols[i]) =>
              (r.flower_conspicuous = Yes /\ r.is_showy_bloomer = 1)

\* the scenario: the row written for ABCD says 'Yes' and 1
C14_Witness ==
    /\ pc = "end"
    /\ symbols[i] = "ABCD"
    /\ obs = ScenarioObservations("ABCD")
    /\ index_row(db, "ABCD").flower_conspicuous = Yes
    /\ index_row(db, "ABCD").is_showy_bloomer = 1
    /\ index_row(db, "ABCD").has_fall_interest = 2

\* the symbols plant_state_presence lists for the state and fetch of the run
InScope ==
    { p.symbol : p \in { q \in plant_state_presence :
                           /\ q.state_code = args.state_code
                           /\ (args.fetch_id = <<>> \/ q.fetch_id = args.fetch_id[1]) } }

\* C17: plant_filter_index never holds two rows of one symbol; when a filter-index run has
\* succeeded, it processed the symbols in scope up to the row limit, each of them has one
\* committed row, every column of which is what this run computes from the observations it found,
\* and the upsert count is the number of symbols processed.
C17_FilterIndexOneRowPerSymbol ==
    /\ \A d \in { db, committed } : \A r1, r2 \in d.plant_filter_index :
          r1.symbol = r2.symbol => r1 = r2
    /\ (pc = "done" /\ driver = "build_filter_index") =>
        /\ upserts = Len(symbols)
        /\ SeqToSet(symbols) \subseteq InScope
        /\ Cardinality(SeqToSet(symbols)) = Len(symbols)
        /\ Len(symbols) = IF args.limit > 0 /\ args.limit < Cardinality(InScope)
                          THEN args.limit ELSE Cardinality(InScope)
        /\ \A k \in 1..Len(symbols) :
            /\ Cardinality({ r \in committed.plant_filter_index : r.symbol = symbols[k] }) = 1
            /\ \E m \in fetch_latest_kv_map(seen, symbols[k]) :
                  index_row(committed, symbols[k]) =
                      filter_index_row(seen, symbols[k], get_canonical_fields(symbols[k]), m, runs)

\* a later run has replaced the row an earlier run stored for a symbol, value and timestamp
C17_Witness ==
    /\ pc = "done"
    /\ driver = "build_filter_index"
    /\ prev.valid
    /\ \E r \in prev.db.plant_filter_index :
        /\ r.symbol \in SeqToSet(symbols)
        /\ r.flower_conspicuous # index_row(committed, r.symbol).flower_conspicuous
        /\ r.last_indexed_at < index_row(committed, r.symbol).last_indexed_at

\* the sections of the characteristics page
CharacteristicsSections ==
    { "Morphology/Physiology", "Growth Requirements", "Reproduction", "Suitability/Use" }

\* the sections of the profile page
ProfileSections == { "Profile / General Information", "Characteristics" }

\* C18: the row the driver has just written for a symbol has has_characteristics_kv 1
\* exactly when the symbol has an observation in a characteristics section, whatever its
\* value and trait name, and has_profile_kv 1 exactly when it has one in a profile section.
C18_ExistenceFlags ==
    (pc = "end" /\ driver = "build_filter_index") =>
        LET r == index_row(db, symbols[i]) IN
        /\ r.has_characteristics_kv \in { 0, 1 }
        /\ r.has_profile_kv \in { 0, 1 }
        /\ r.has_characteristics_kv = 1 <=>
              \E o \in obs : o.symbol = symbols[i] /\ o.section \in CharacteristicsSections
        /\ r.has_profile_kv = 1 <=>
              \E o \in obs : o.symbol = symbols[i] /\ o.section \in ProfileSections

\* a recompute after an observation in 'Reproduction' was appended: the committed row of
\* the symbol says 0, the row just written says 1
C18_Witness ==
    /\ pc = "end"
    /\ driver = "build_filter_index"
    /\ \E r \in committed.plant_filter_index : r.symbol = symbols[i] /\ r.has_characteristics_kv = 0
    /\ index_row(db, symbols[i]).has_characteristics_kv = 1
    /\ \A o \in obs :
          (o.symbol = symbols[i] /\ o.section \in CharacteristicsSections) => o.section = "Reproduction"

\* the plant_traits_normalized rows of a key
trait_rows(d, s, key) == { r \in d.plant_traits_normalized : r.symbol = s /\ r.trait_key = key }

\* C16: plant_traits_normalized never holds two rows of one (symbol, trait_key), and an
\* upsert leaves for its key the one row made of its own trait_value, value_type,
\* source_system, trait_name_raw, trait_value_raw and time, whatever row the key had, and
\* leaves the rows of every other key as they were.
C16_TraitUpsertOverwrites ==
    /\ [](\A d \in { db, committed } : \A r1, r2 \in d.plant_traits_normalized :
             (r1.symbol = r2.symbol /\ r1.trait_key = r2.trait_key) => r1 = r2)
    /\ [][(pc = "write" /\ driver \in TraitDrivers /\ upserts' = upserts + 1) =>
            LET e == trait_map(driver)[j' - 1] IN
            /\ trait_rows(db', symbols[i], e.trait_key) =
                  { [symbol |-> symbols[i], trait_key |-> e.trait_key,
                     trait_value |-> Apply(e.normalizer, kv[e.raw_name].value),
                     value_type |-> e.value_type, source_system |-> SOURCE_SYSTEM,
                     trait_name_raw |-> e.raw_name, trait_value_raw |-> kv[e.raw_name].value,
                     last_computed_at |-> runs] }
            /\ db'.plant_traits_normalized \ trait_rows(db', symbols[i], e.trait_key) =
                  db.plant_traits_normalized \ trait_rows(db, symbols[i], e.trait_key)]_vars

\* a later run has overwritten the value and the time of the row an earlier run committed
C16_Witness ==
    /\ pc = "write"
    /\ driver \in TraitDrivers
    /\ \E r \in committed.plant_traits_normalized : \E q \in db.plant_traits_normalized :
        /\ r.symbol = q.symbol
        /\ r.trait_key = q.trait_key
        /\ r.trait_value # q.trait_value
        /\ r.trait_name_raw # q.trait_name_raw
        /\ r.last_computed_at < q.last_computed_at

\* C19: no step of a run changes plant_characteristics_kv: the step that starts a run (or
\* fails before its loop), every step of the loop, and the step that ends the run by success
\* or by failure leave the observations as they are, so that throughout a run and at its end
\* the store holds the observations the run found.
C19_ObservationsUntouched ==
    /\ [](Running => obs = seen)
    /\ [][(Running \/ pc' # pc \/ runs' # runs) => (obs' = obs /\ obs' = seen')]_vars

\* a run that wrote rows and then failed over a store that holds observations
C19_Witness ==
    /\ pc = "failed"
    /\ upserts > 0
    /\ obs # {}
    /\ obs = seen
    /\ db = committed

\* C20: a run whose configuration cannot be loaded, or whose scope selector returns no
\* symbol, ends before its loop: the step that starts it ends it with exit code 1 and
\* without the success summary, it counts no upsert, and the store keeps, in the transaction
\* and committed, exactly the rows committed before the run; and a run for a state and fetch
\* generation without symbols never enters the loop.
C20_PreconditionErrorsAbort ==
    /\ []((pc = "failed" /\ symbols = <<>>) =>
            /\ exit_code = <<1>>
            /\ ~summary
            /\ upserts = 0
            /\ db = committed)
    /\ [][(runs' # runs /\ pc' = "failed") =>
            /\ exit_code' = <<1>>
            /\ ~summary'
            /\ upserts' = 0
            /\ symbols' = <<>>
            /\ committed' = committed
            /\ db' = committed
            /\ obs' = obs]_vars
    /\ [][(runs' # runs /\ get_symbols_for_state(args'.state_code, args'.fetch_id) = <<>>) =>
            pc' = "failed"]_vars

\* a run for a state without plants that failed after an earlier run had committed rows
C20_Witness ==
    /\ pc = "failed"
    /\ symbols = <<>>
    /\ args.state_code = "MD"
    /\ runs > 1
    /\ exit_code = <<1>>
    /\ committed # EmptyDb
    /\ db = committed

\* C21: fetch_latest_kv returns an entry for exactly the requested trait names the symbol
\* has an observation of; each entry is an observation of that symbol and name, and no
\* observation of the name that agrees with it on being of section 'Direct Trait Lookup'
\* and on being empty has a later fetched_at.
C21_ResultShapeAndRecency ==
    (pc = "resolved" /\ driver \in TraitDrivers) =>
        /\ DOMAIN kv = { n \in trait_names(driver) : ObsOf(symbols[1], n) # {} }
        /\ \A n \in DOMAIN kv : \E o \in ObsOf(symbols[1], n) :
            /\ kv[n] = Entry(o)
            /\ \A p \in ObsOf(symbols[1], n) :
                ((p.section = DIRECT) = (o.section = DIRECT)
                    /\ IsBlank(p.trait_value) = IsBlank(o.trait_value))
                => p.fetched_at <= o.fetched_at

\* the newer of two like observations returned, the requested names without observation
\* left out
C21_Witness ==
    /\ pc = "resolved"
    /\ driver = "build_traits_normalized"
    /\ DOMAIN kv = { "Toxicity" }
    /\ \E a, b \in ObsOf(symbols[1], "Toxicity") :
        /\ (a.section = DIRECT) = (b.section = DIRECT)
        /\ IsBlank(a.trait_value) = IsBlank(b.trait_value)
        /\ a.fetched_at < b.fetched_at
        /\ a.trait_value # b.trait_value
        /\ kv["Toxicity"] = Entry(b)

\* a text without leading, trailing or repeated whitespace
IsCollapsed(v) ==
    /\ v # NULL
    /\ v # <<>>
    /\ ~IsSpace(v[1])
    /\ ~IsSpace(v[Len(v)])
    /\ \A k \in 1..(Len(v) - 1) : ~(IsSpace(v[k]) /\ IsSpace(v[k + 1]))

C23_KvMapDirectPrecedence ==
    (pc = "resolved" /\ driver = "build_filter_index") =>
        \A n \in KV_MAP_NAMES :
            (\E o \in ObsOf(symbols[1], n) : o.section = DIRECT) =>
                /\ n \in DOMAIN kv
                /\ \E o \in ObsOf(symbols[1], n) : o.section = DIRECT /\ kv[n] = o.trait_value
                /\ \E m \in fetch_latest_kv(obs, symbols[1], KV_MAP_NAMES) : m[n].value = kv[n]

\* the labels of a set a text equals after whitespace collapsing, letter case aside
LabelsAmong(labels, s) == { l \in labels : lower(collapse(s)) = lower(l) }

\* the closed-enum rule: the label the text is a letter-case variant of, else 'Unknown'
ClosedEnum(labels, s, result) ==
    IF s = NULL \/ LabelsAmong(labels, s) = {}
    THEN result = Unknown
    ELSE result \in LabelsAmong(labels, s)

\* C24: moisture_use, shade_tolerance and bloom_period of the filter index are the allowed
\* label the raw value equals after whitespace collapsing, letter case aside ('low' gives
\* 'Low'), and 'Unknown' otherwise; is_shade_tolerant is 1 exactly for 'Tolerant' and
\* 'Intermediate'.
C24_FilterIndexClosedEnums ==
    out.done =>
        /\ ClosedEnum({ <<"L", "o", "w">>, <<"M", "e", "d", "i", "u", "m">>, <<"H", "i", "g", "h">> }, text, out.moisture_use)
        /\ ClosedEnum({ <<"T", "o", "l", "e", "r", "a", "n", "t">>, <<"I", "n", "t", "e", "r", "m", "e", "d", "i", "a", "t", "e">>, <<"I", "n", "t", "o", "l", "e", "r", "a", "n", "t">> }, text, out.shade_tolerance)
        /\ ClosedEnum(bloom_periods, text, out.bloom_period)
        /\ is_shade_tolerant(out.shade_tolerance) = 1
            <=> out.shade_tolerance \in { <<"T", "o", "l", "e", "r", "a", "n", "t">>, <<"I", "n", "t", "e", "r", "m", "e", "d", "i", "a", "t", "e">> }

\* the entry of the trait map for which the resolver returned an observation whose value the
\* normalizer of the entry turns into a non-empty value
Usable(d, kvm, k) ==
    /\ trait_map(d)[k].raw_name \in DOMAIN kvm
    /\ Apply(trait_map(d)[k].normalizer, kvm[trait_map(d)[k].raw_name].value) \notin { NULL, <<>> }

\* the rows the run at hand has written
written_rows(d) == { r \in d.plant_traits_normalized : r.last_computed_at = runs }

\* C25: in a run of a trait driver the loop over the mapping issues its next upsert for the
\* first usable entry and passes the entries before it, which are not usable, without a
\* write; it leaves a symbol when no usable entry is left; the counter grows by one with
\* every upsert and by nothing else, and for build_traits_normalized.py, whose raw names map
\* to distinct keys, it equals the number of rows the run has written.
C25_SkipRule ==
    /\ [][(pc = "write" /\ driver \in TraitDrivers /\ pc' # "failed") =>
            IF pc' = "write" /\ i' = i
            THEN /\ Usable(driver, kv, j' - 1)
                 /\ \A k \in j..(j' - 2) : ~Usable(driver, kv, k)
                 /\ upserts' = upserts + 1
                 /\ \E r \in written_rows(db') \ db.plant_traits_normalized :
                        /\ r.symbol = symbols[i]
                        /\ r.trait_name_raw = trait_map(driver)[j' - 1].raw_name
            ELSE /\ \A k \in j..Len(trait_map(driver)) : ~Usable(driver, kv, k)
                 /\ upserts' = upserts
                 /\ db' = db]_vars
    /\ []((pc \in { "fetch", "write", "done" } /\ driver = "build_traits_normalized") =>
            upserts = Cardinality(written_rows(db)))
    /\ []((pc = "done" /\ driver \in TraitDrivers) => summary)

\* a run that has written one trait of a symbol and has passed another, of which the
\* resolver returned an observation the normalizer makes nothing of
C25_Witness ==
    /\ pc = "write"
    /\ driver = "build_traits_normalized"
    /\ upserts = 1
    /\ to_upsert(driver, kv, j) = {}
    /\ \E k \in 1..Len(trait_map(driver)) :
        /\ trait_map(driver)[k].raw_name \in DOMAIN kv
        /\ ~Usable(driver, kv, k)

\* the pieces of a text between its commas and semicolons, trimmed, the empty ones left out
Tokens(s) ==
    LET sep(k) == s[k] \in { ",", ";" }
        whole(a, b) ==
            /\ a <= b
            /\ \A k \in a..b : ~sep(k)
            /\ a = 1 \/ sep(a - 1)
            /\ b = Len(s) \/ sep(b + 1)
    IN  { strip(SubSeq(s, a, b)) : <<a, b>> \in { p \in (1..Len(s)) \X (1..Len(s)) : whole(p[1], p[2]) } }
        \ { <<>> }

\* C26: the growth habits inserted for a raw Growth Habits text are its pieces between
\* commas and semicolons, trimmed, each distinct non-empty one once; None and the empty
\* text give no row.
C26_GrowthHabitTokens ==
    out.done =>
        /\ out.growth_habits = IF text = NULL THEN {} ELSE Tokens(text)
        /\ refresh_growth_habits({}, "ABCD", text) =
              { [symbol |-> "ABCD", growth_habit |-> h] : h \in out.growth_habits }

\* a text with a comma and a semicolon that gives three habits
C26_Witness ==
    /\ out.done
    /\ text # NULL
    /\ \E a, b \in 1..Len(text) : text[a] = "," /\ text[b] = ";"
    /\ Cardinality(out.growth_habits) = 3

\* a text of an optional "-" and one or more decimal digits
IsSignedInteger(v) ==
    /\ v # NULL
    /\ LET body == IF v # <<>> /\ Head(v) = "-" THEN Tail(v) ELSE v
       IN  body # <<>> /\ \A k \in 1..Len(body) : body[k] \in Digits

\* C27: the trait_value of every plant_traits_normalized row is of the kind its value_type
\* names: 'Yes', 'No' or 'Unknown' for 'bool', a signed decimal integer for 'number', an
\* allowed label or 'Unknown' for 'enum'.
C27_ValueConformsToType ==
    \A r \in db.plant_traits_normalized :
        /\ r.value_type \in { "bool", "number", "enum" }
        /\ r.value_type = "bool" => r.trait_value \in { Yes, No, Unknown }
        /\ r.value_type = "number" => IsSignedInteger(r.trait_value)
        /\ r.value_type = "enum" => r.trait_value \in allowed \cup { Unknown }

\* the position of a raw name in the mapping of 01test.py
position_01(raw_name) == CHOOSE k \in 1..Len(TRAIT_MAP_01) : TRAIT_MAP_01[k].raw_name = raw_name

\* C28: when 01test.py has processed a symbol for which 'Toxicity' and 'Toxic' both
\* resolve to an observation with a usable normalized value, the symbol has one 'toxicity'
\* row; its trait_value, trait_name_raw and trait_value_raw are those of 'Toxic', the later
\* of the two in the mapping; and the counter has counted the write of either.
C28_AliasKeepsOneRow ==
    (/\ driver = "01test"
     /\ pc = "write"
     /\ to_upsert(driver, kv, j) = {}
     /\ Usable(driver, kv, position_01("Toxicity"))
     /\ Usable(driver, kv, position_01("Toxic"))) =>
        /\ position_01("Toxicity") < position_01("Toxic")
        /\ TRAIT_MAP_01[position_01("Toxicity")].trait_key = "toxicity"
        /\ TRAIT_MAP_01[position_01("Toxic")].trait_key = "toxicity"
        /\ trait_rows(db, symbols[i], "toxicity") =
              { [symbol |-> symbols[i], trait_key |-> "toxicity",
                 trait_value |-> normalize_yes_no_01(kv["Toxic"].value),
                 value_type |-> "bool", source_system |-> SOURCE_SYSTEM,
                 trait_name_raw |-> "Toxic", trait_value_raw |-> kv["Toxic"].value,
                 last_computed_at |-> runs] }
        /\ i = 1 => upserts = Cardinality({ k \in 1..Len(TRAIT_MAP_01) : Usable(driver, kv, k) })
        /\ upserts >= 2

\* 'Toxicity' gave 'No' and 'Toxic' gave 'Yes': the row holds 'Yes' and two writes are counted
C28_Witness ==
    /\ driver = "01test"
    /\ pc = "write"
    /\ to_upsert(driver, kv, j) = {}
    /\ "Toxicity" \in DOMAIN kv
    /\ "Toxic" \in DOMAIN kv
    /\ normalize_yes_no_01(kv["Toxicity"].value) = No
    /\ normalize_yes_no_01(kv["Toxic"].value) = Yes
    /\ upserts = 2
    /\ \E r \in db.plant_traits_normalized : r.trait_key = "toxicity" /\ r.trait_value = Yes

\* the entries of the mapping that write the key and are usable for the symbol at hand
usable_for(key) ==
    { k \in 1..Len(trait_map(driver)) :
        trait_map(driver)[k].trait_key = key /\ Usable(driver, kv, k) }

\* C29: a trait run removes no plant_traits_normalized row and changes a row only by an
\* upsert of its key: a row of the symbol in progress whose key has no usable entry, a row
\* of a symbol processed or to come, and a row of a symbol outside the scope of the run are
\* what they were, in the transaction and committed; so a row whose trait has become absent
\* or unusable keeps the value and the time of an earlier run.
C29_NoTraitRowDeleted ==
    /\ [][pc' # "failed" =>
            \A r \in db.plant_traits_normalized :
                \/ r \in db'.plant_traits_normalized
                \/ /\ pc = "write"
                   /\ driver \in TraitDrivers
                   /\ r.symbol = symbols[i]
                   /\ usable_for(r.trait_key) # {}
                   /\ trait_rows(db', r.symbol, r.trait_key) # {}]_vars
    /\ [][\A r \in committed.plant_traits_normalized :
                \/ r \in committed'.plant_traits_normalized
                \/ /\ r.symbol \in { symbols[k] : k \in 1..i }
                   /\ \E q \in trait_rows(committed', r.symbol, r.trait_key) :
                        q.last_computed_at = runs]_vars
    /\ []((pc = "write" /\ driver \in TraitDrivers /\ to_upsert(driver, kv, j) = {}) =>
            \A r \in committed.plant_traits_normalized :
                (r.symbol = symbols[i] /\ r.last_computed_at < runs /\ usable_for(r.trait_key) = {})
                    => r \in db.plant_traits_normalized)

\* after a successful later run the last symbol keeps a row of an earlier run, the
\* observation resolved for its trait being one the normalizer of the run makes nothing of,
\* and a symbol outside the scope keeps its rows
C29_Witness ==
    /\ pc = "done"
    /\ driver \in TraitDrivers
    /\ runs = 2
    /\ symbols = << "EFGH" >>
    /\ \E r \in committed.plant_traits_normalized :
        /\ r.symbol = "EFGH"
        /\ r.last_computed_at < runs
        /\ r.trait_name_raw \in DOMAIN kv
        /\ usable_for(r.trait_key) = {}
    /\ \E r \in committed.plant_traits_normalized : r.symbol = "ABCD"

\* the place of a symbol in ascending symbol order
rank(s) == CHOOSE k \in 1..Len(AllSymbols) : AllSymbols[k] = s

\* the symbols plant_state_presence holds for the state and fetch generation of the run
selected ==
    { p.symbol : p \in { q \in plant_state_presence :
                           /\ q.state_code = args.state_code
                           /\ (args.fetch_id = <<>> \/ q.fetch_id = args.fetch_id[1]) } }

\* the symbols any table of the store holds a row of
symbols_written(d) ==
    { r.symbol : r \in d.plant_traits_normalized \cup d.plant_filter_index
                        \cup d.plant_durations \cup d.plant_growth_habits }

\* C30: the symbol list of a run holds each selected symbol once, in ascending order, cut to
\* its first L symbols when --limit L is positive; the loop takes the symbols of the list one
\* after the other, each once; a successful run has taken all of them (the filter-index
\* driver has then upserted one row for each), and no symbol off the list or still to come
\* has a row written.
C30_ScopeOrderAndCoverage ==
    /\ [](pc \in { "fetch", "write", "children", "end", "done" } =>
            LET n == IF args.limit > 0 /\ args.limit < Cardinality(selected)
                     THEN args.limit ELSE Cardinality(selected)
                listed == { symbols[k] : k \in 1..Len(symbols) }
            IN  /\ Len(symbols) = n
                /\ listed \subseteq selected
                /\ \A a, b \in 1..Len(symbols) : a < b => rank(symbols[a]) < rank(symbols[b])
                /\ \A s \in selected \ listed : \A t \in listed : rank(t) < rank(s)
                /\ i \in 1..Len(symbols)
                /\ symbols_written(db) \subseteq { symbols[k] : k \in 1..i }
                /\ symbols_written(committed) \subseteq { symbols[k] : k \in 1..i }
                /\ pc = "done" =>
                    /\ i = Len(symbols)
                    /\ driver = "build_filter_index" =>
                        /\ upserts = Len(symbols)
                        /\ { r.symbol : r \in committed.plant_filter_index } = listed)
    /\ [][(Running /\ pc' # "failed" /\ pc' # "crashed") =>
            /\ symbols' = symbols
            /\ i' \in { i, i + 1 }
            /\ i' = i + 1 => (pc' = "fetch" /\ (pc = "end" \/ (pc = "write" /\ driver \in TraitDrivers)))
            /\ pc' = "fetch" => i' = i + 1]_vars
    /\ [][(~Running /\ pc' = "fetch") => i' = 1]_vars

\* a run with --limit 1 that ended well: the first symbol has its rows, the second, which
\* has observations, has none
C30_Witness ==
    /\ pc = "done"
    /\ args.limit = 1
    /\ symbols = << "ABCD" >>
    /\ selected = { "ABCD", "EFGH" }
    /\ upserts > 0
    /\ \E o \in obs : o.symbol = "EFGH"
    /\ symbols_written(committed) = { "ABCD" }

====
